---- MODULE Spec2Model ----
(***************************************************************************)
(* A model of bcrypto's DSA engine (pure-JS backend lib/js/dsa.js, native  *)
(* backend src/dsa/dsa.c), its key value objects (lib/internal/dsakey.js), *)
(* the RSA entry points of lib/native/rsa.js and the base64 codec as its   *)
(* tests pin it down.                                                      *)
(*                                                                         *)
(* Integers are scaled down so that TLC can enumerate them: a modulus p    *)
(* has 9 to 17 bits and a subprime q has 8 to 16 bits.  Buffers are        *)
(* sequences of bytes, big-endian, exactly as the code holds them; every   *)
(* conversion between buffers and integers is computed, never assumed.     *)
(***************************************************************************)
EXTENDS Integers, Sequences, FiniteSets, TLC

(***************************************************************************)
(* Bounds of the model.                                                    *)
(***************************************************************************)
\* longest message (in bytes) handed to sign and verify
MaxMsgLen == 2
\* longest r / s buffer handed to verify by an untrusted caller
MaxSigLen == 2

Byte == 0..255

\* all byte strings of length 0..n over the bytes in B
BytesUpTo(B, n) == UNION {[1..l -> B] : l \in 0..n}

Min(a, b) == IF a < b THEN a ELSE b

(***************************************************************************)
(* Big numbers (vendor bn.js as used by lib/js/dsa.js, BIGNUM in dsa.c).   *)
(***************************************************************************)
RECURSIVE BN(_)
\* new BN(buf): the big-endian value of a buffer
BN(buf) ==
  IF Len(buf) = 0 THEN 0
  ELSE BN(SubSeq(buf, 1, Len(buf) - 1)) * 256 + buf[Len(buf)]

RECURSIVE bitLength(_)
\* n.bitLength()
bitLength(n) == IF n <= 0 THEN 0 ELSE 1 + bitLength(n \div 2)

\* n.byteLength(): bytes of the minimal big-endian form
byteLength(n) == (bitLength(n) + 7) \div 8

RECURSIVE toArrayLike(_, _)
\* n.toArrayLike(Buffer, 'be', len): exactly len big-endian bytes
toArrayLike(n, len) ==
  IF len = 0 THEN <<>>
  ELSE Append(toArrayLike(n \div 256, len - 1), n % 256)

\* toBuffer(n): the minimal big-endian bytes, zero is the empty buffer
toBuffer(n) == toArrayLike(n, byteLength(n))

RECURSIVE MulMod(_, _, _)
\* (a * b) mod m, by bytes of b so that no product leaves 32 bits (m < 2^22)
MulMod(a, b, m) ==
  IF b = 0 THEN 0
  ELSE (MulMod(a, b \div 256, m) * 256 + (a % m) * (b % 256)) % m

RECURSIVE PowMod(_, _, _)
PowMod(x, y, m) ==
  IF y = 0 THEN 1 % m
  ELSE LET h == PowMod(x, y \div 2, m)
           hh == MulMod(h, h, m)
       IN IF y % 2 = 1 THEN MulMod(hh, x % m, m) ELSE hh

\* modPow(x, y, m): Montgomery exponentiation, defined for odd m > 1
modPow(x, y, m) == PowMod(x, y, m)

\* fermatInverse(k, p) = k^(p-2) mod p
fermatInverse(k, p) == modPow(k, p - 2, p)

RECURSIVE Egcd(_, _)
\* extended Euclid: <<g, u, v>> with a*u + b*v = g = gcd(a, b)
Egcd(a, b) ==
  IF b = 0 THEN <<a, 1, 0>>
  ELSE LET e == Egcd(b, a % b)
       IN <<e[1], e[3], e[2] - (a \div b) * e[3]>>

\* a.invm(m) = a.egcd(m).a.umod(m): the inverse of a modulo m when
\* gcd(a, m) = 1 (the model calls it only with m prime and 0 < a < m)
invm(a, m) == Egcd(a % m, m)[2] % m

(***************************************************************************)
(* Buffers of the key objects and of signatures.                           *)
(***************************************************************************)
RECURSIVE trimLeft(_)
\* trimLeft(buf): strip the leading zero bytes; zero is the empty buffer
trimLeft(buf) ==
  IF Len(buf) > 0 /\ buf[1] = 0 THEN trimLeft(Tail(buf)) ELSE buf

\* countLeft(buf): the bit length of the integer a buffer holds
countLeft(buf) == bitLength(BN(buf))

RECURSIVE leftPad(_, _)
\* leftPad(buf, size): zero bytes in front, up to size bytes
leftPad(buf, size) ==
  IF Len(buf) >= size THEN buf ELSE leftPad(<<0>> \o buf, size)

\* DSAParams.N(): bits of the subprime q
DSAParams_N(key) == countLeft(key.q)

\* DSAParams.L(): bits of the modulus p
DSAParams_L(key) == countLeft(key.p)

\* DSAParams.bits()
DSAParams_bits(key) == DSAParams_L(key)

\* DSAParams.size() as the code has it: (this.N() + 7) >>> 3
DSAParams_size(key) == (DSAParams_N(key) + 7) \div 8

\* DSAPrivateKey.toPublic(): the public fields only
toPublic(key) == [p |-> key.p, q |-> key.q, g |-> key.g, y |-> key.y]

\* new DSASignature(size) with setR(r) and setS(s): each left-padded to size
DSASignature(sz, r, s) == [r |-> leftPad(r, sz), s |-> leftPad(s, sz)]

(***************************************************************************)
(* The keys, messages and signatures the model runs on.                    *)
(***************************************************************************)
\* a private key object from its numbers, y = g^x mod p
MkKey(p, q, g, x) ==
  [p |-> toBuffer(p), q |-> toBuffer(q), g |-> toBuffer(g),
   y |-> toBuffer(modPow(g, x, p)), x |-> toBuffer(x)]

\* domain parameters <<p, q, g>>: q prime, q | p-1, g of order q mod p.
\* With <<347, 173, 4>> the nonce k = 86 gives r = 0; <<34847, 131, 2883>>
\* has a 16-bit modulus; with <<65543, 32771, 4>> (a two-byte q) the nonce
\* k = 1 gives r = 4, which needs one byte only.
ValidParams == {<<347, 173, 4>>, <<34847, 131, 2883>>, <<65543, 32771, 4>>}

\* the private exponents tried with each parameter set
KeyX(q) == {2, q - 1}

ValidKeys ==
  UNION {{MkKey(d[1], d[2], d[3], x) : x \in KeyX(d[2])} : d \in ValidParams}

\* keys sign must refuse: x = 0, and a subprime whose bit length is not a
\* multiple of 8 (q = 257, p = 1543, g = 64)
BadKeys == {MkKey(347, 173, 4, 0), MkKey(1543, 257, 64, 3)}

SignKeys == ValidKeys \cup BadKeys

\* the bytes messages are made of
MsgBytes == {1, 255}

Msgs == BytesUpTo(MsgBytes, MaxMsgLen)

(***************************************************************************)
(* lib/js/dsa.js: sign and verify of the pure-JS backend.                  *)
(***************************************************************************)
\* random.randomFill(buf, 0, n): every value of a single byte, and for wider
\* buffers every combination of the sampled bytes
RandomBytes == {0, 1, 113, 128, 255}

randomFill(n) == IF n <= 1 THEN [1..n -> Byte] ELSE [1..n -> RandomBytes]

\* the retry budget of sign: let attempts = 10
SIGN_ATTEMPTS == 10

\* sign, lines 127-140: the keys it refuses with 'Invalid key.'
signInvalidKey(key) ==
  LET pn == BN(key.p)
      qn == BN(key.q)
      gn == BN(key.g)
      xn == BN(key.x)
      n  == bitLength(qn)
  IN qn <= 0 \/ pn <= 0 \/ gn <= 0 \/ xn <= 0 \/ n % 8 # 0

\* sign, lines 150-158: the nonces the inner loop can leave with
signNonces(key) ==
  LET qn == BN(key.q)
      n  == bitLength(qn) \div 8
  IN {k \in {BN(buf) : buf \in randomFill(n)} : k # 0 /\ k < qn}

\* a loop that stops one attempt early
signLoop_stopsAtOne(att) == att > 1

\* sign, the loop condition: attempts > 0
signLoop(att) == att > 0

\* a loop body that forgets to multiply by the inverse of the nonce
signBody_noInverse(msg, key, k, s0) ==
  LET pn == BN(key.p)
      qn == BN(key.q)
      gn == BN(key.g)
      xn == BN(key.x)
      r  == modPow(gn, k, pn) % qn
      s  == (MulMod(xn, r, qn) + BN(msg)) % qn
  IN IF r = 0 THEN [brk |-> FALSE, r |-> r, s |-> s0]
     ELSE [brk |-> s # 0, r |-> r, s |-> s]

\* sign, lines 160-177: one pass of the loop body with nonce k; brk tells
\* whether the pass left the loop by break (r and s both nonzero)
signBody(msg, key, k, s0) ==
  LET pn == BN(key.p)
      qn == BN(key.q)
      gn == BN(key.g)
      xn == BN(key.x)
      ki == fermatInverse(k, qn)
      r  == modPow(gn, k, pn) % qn
      z  == BN(msg)
      s1 == (MulMod(xn, r, qn) + z) % qn
      s  == MulMod(s1, ki, qn)
  IN IF r = 0 THEN [brk |-> FALSE, r |-> r, s |-> s0]
     ELSE [brk |-> s # 0, r |-> r, s |-> s]

\* sign, lines 180-181: if (attempts === 0) throw 'Could not sign.'
signExhausted(att) == att = 0

\* sign, lines 183-188: the signature object returned
signResult(key, r, s) == DSASignature(DSAParams_size(key), toBuffer(r), toBuffer(s))

\* a verify that forgets the zero checks on r and s
verify_noZeroCheck(msg, sig, key) ==
  LET pn == BN(key.p)
      qn == BN(key.q)
      gn == BN(key.g)
      yn == BN(key.y)
      rn == BN(sig.r)
      sn == BN(sig.s)
  IN IF pn = 0 THEN FALSE
     ELSE IF rn >= qn THEN FALSE
     ELSE IF sn >= qn THEN FALSE
     ELSE LET w  == invm(sn, qn)
              n  == bitLength(qn)
          IN IF n % 8 # 0 THEN FALSE
             ELSE LET z  == BN(msg)
                      u1 == MulMod(z % qn, w, qn)
                      u2 == MulMod(rn, w, qn)
                      v  == MulMod(modPow(gn, u1, pn), modPow(yn, u2, pn), pn) % qn
                  IN v = rn

\* verify(msg, sig, key), lines 191-239
verify(msg, sig, key) ==
  LET pn == BN(key.p)
      qn == BN(key.q)
      gn == BN(key.g)
      yn == BN(key.y)
      rn == BN(sig.r)
      sn == BN(sig.s)
  IN IF pn = 0 THEN FALSE
     ELSE IF rn = 0 \/ rn >= qn THEN FALSE
     ELSE IF sn = 0 \/ sn >= qn THEN FALSE
     ELSE LET w  == invm(sn, qn)
              n  == bitLength(qn)
          IN IF n % 8 # 0 THEN FALSE
             ELSE LET z  == BN(msg)
                      u1 == MulMod(z % qn, w, qn)
                      u2 == MulMod(rn, w, qn)
                      v  == MulMod(modPow(gn, u1, pn), modPow(yn, u2, pn), pn) % qn
                  IN v = rn

(***************************************************************************)
(* src/dsa/dsa.c: the native backend.  OpenSSL's DSA_do_sign and           *)
(* DSA_do_verify are modelled by FIPS 186-4 as OpenSSL implements it.      *)
(***************************************************************************)
\* The bit sizes the native code compares against, at the scale of the model:
\* a modulus of 1024..3072 bits is one of 16..48 bits here, a subprime of
\* 160 / 224 / 256 bits is one of 8 / 16 / 24 bits.
Scaled(bits) ==
  CASE bits = 160  -> 8
    [] bits = 224  -> 16
    [] bits = 256  -> 24
    [] bits = 1024 -> 16
    [] bits = 2048 -> 32
    [] bits = 3072 -> 48

RECURSIVE bcrypto_count_bits(_)
\* bcrypto_count_bits(in, in_len): skip the zero bytes, then 8 bits a byte
\* less the leading zero bits of the first one
bcrypto_count_bits(in) ==
  IF Len(in) = 0 THEN 0
  ELSE IF in[1] = 0 THEN bcrypto_count_bits(Tail(in))
  ELSE (Len(in) - 1) * 8 + bitLength(in[1])

bcrypto_dsa_sane_params(params) ==
  LET pb == bcrypto_count_bits(params.p)
      qb == bcrypto_count_bits(params.q)
      gb == bcrypto_count_bits(params.g)
  IN IF pb < Scaled(1024) \/ pb > Scaled(3072) THEN FALSE
     ELSE IF qb # Scaled(160) /\ qb # Scaled(224) /\ qb # Scaled(256) THEN FALSE
     ELSE IF gb = 0 \/ gb > pb THEN FALSE
     ELSE TRUE

bcrypto_dsa_sane_pubkey(key) ==
  IF ~bcrypto_dsa_sane_params(key) THEN FALSE
  ELSE LET pb == bcrypto_count_bits(key.p)
           yb == bcrypto_count_bits(key.y)
       IN ~(yb = 0 \/ yb > pb)

bcrypto_dsa_sane_privkey(key) ==
  IF ~bcrypto_dsa_sane_pubkey(key) THEN FALSE
  ELSE LET qb == bcrypto_count_bits(key.q)
           xb == bcrypto_count_bits(key.x)
       IN ~(xb = 0 \/ xb > qb)

bcrypto_dsa_subprime_size(key) == (bcrypto_count_bits(key.q) + 7) \div 8

\* BN_bn2bin in its place: the minimal bytes, no padding
BN_bn2binpad_minimal(bn, sz) == toBuffer(bn)

\* BN_bn2binpad(bn, buf, size): exactly size big-endian bytes
BN_bn2binpad(bn, sz) == toArrayLike(bn, sz)

\* bcrypto_dsa_sig2rs(priv_d, sig_d, r, s): both numbers padded to the byte
\* size of q
bcrypto_dsa_sig2rs(qn, rn, sn) ==
  LET bits == bitLength(qn)
      sz   == (bits + 7) \div 8
  IN [r |-> BN_bn2binpad(rn, sz), s |-> BN_bn2binpad(sn, sz)]

\* the digest as DSA_do_sign / DSA_do_verify read it: at most the leftmost
\* bytes that q has
DSA_digest(msg, qn) == BN(SubSeq(msg, 1, Min(Len(msg), byteLength(qn))))

\* DSA_do_sign(msg, msg_len, priv_d): the <<r, s>> it can return, one for
\* every nonce that gives r # 0 and s # 0
DSA_do_sign(msg, key) ==
  LET pn == BN(key.p)
      qn == BN(key.q)
      gn == BN(key.g)
      xn == BN(key.x)
      z  == DSA_digest(msg, qn)
      R(k) == modPow(gn, k, pn) % qn
      S(k) == MulMod(fermatInverse(k, qn), (z + MulMod(xn, R(k), qn)) % qn, qn)
      ks == {k \in {BN(buf) : buf \in randomFill(byteLength(qn))} : k # 0 /\ k < qn}
  IN {<<R(k), S(k)>> : k \in {j \in ks : R(j) # 0 /\ S(j) # 0}}

\* DSA_do_verify(msg, msg_len, sig_d, pub_d) > 0
DSA_do_verify(msg, rn, sn, key) ==
  LET pn == BN(key.p)
      qn == BN(key.q)
      gn == BN(key.g)
      yn == BN(key.y)
      i  == bitLength(qn)
  IN IF i # Scaled(160) /\ i # Scaled(224) /\ i # Scaled(256) THEN FALSE
     ELSE IF rn = 0 \/ rn >= qn \/ sn = 0 \/ sn >= qn THEN FALSE
     ELSE IF Egcd(sn, qn)[1] # 1 THEN FALSE
     ELSE LET w  == invm(sn, qn)
              z  == DSA_digest(msg, qn)
              u1 == MulMod(z % qn, w, qn)
              u2 == MulMod(rn, w, qn)
              v  == MulMod(modPow(gn, u1, pn), modPow(yn, u2, pn), pn) % qn
          IN v = rn

\* the longest digest the native backend takes: msg_len > 64 is refused
MAX_DIGEST == 64

\* bcrypto_dsa_sign: the signatures it can return; none when it returns false
bcrypto_dsa_sign(msg, priv) ==
  IF Len(msg) < 1 \/ Len(msg) > MAX_DIGEST THEN {}
  ELSE IF ~bcrypto_dsa_sane_privkey(priv) THEN {}
  ELSE {bcrypto_dsa_sig2rs(BN(priv.q), rs[1], rs[2]) : rs \in DSA_do_sign(msg, priv)}

\* bcrypto_dsa_verify(msg, msg_len, r, r_len, s, s_len, pub)
bcrypto_dsa_verify(msg, sig, pub) ==
  LET qsize == bcrypto_dsa_subprime_size(pub)
  IN IF Len(msg) < 1 \/ Len(msg) > MAX_DIGEST THEN FALSE
     ELSE IF Len(sig.r) # qsize THEN FALSE
     ELSE IF Len(sig.s) # qsize THEN FALSE
     ELSE IF ~bcrypto_dsa_sane_pubkey(pub) THEN FALSE
     ELSE DSA_do_verify(msg, BN(sig.r), BN(sig.s), pub)

\* bcrypto_dsa_params_verify(params)
bcrypto_dsa_params_verify(params) ==
  IF ~bcrypto_dsa_sane_params(params) THEN FALSE
  ELSE LET p   == BN(params.p)
           q   == BN(params.q)
           g   == BN(params.g)
           pm1 == p - 1
           div == pm1 \div q
           mod == pm1 % q
       IN IF mod # 0 THEN FALSE
          ELSE LET x == modPow(g, div, p)
               IN IF x = 1 THEN FALSE ELSE TRUE

(***************************************************************************)
(* What untrusted callers hand to verify and to params verify.             *)
(***************************************************************************)
SigBytes == {0, 1, 173}

SigBufs == BytesUpTo(SigBytes, MaxSigLen)

VerifyMsgs == BytesUpTo({1}, MaxMsgLen)

\* public keys: two valid ones, one whose g is q itself, one with q = 0, one
\* with p = 0, and one whose q has 9 bits
PubKeys ==
  {toPublic(MkKey(347, 173, 4, 2)),
   toPublic(MkKey(34847, 131, 2883, 2)),
   [toPublic(MkKey(347, 173, 4, 2)) EXCEPT !.g = toBuffer(173)],
   [toPublic(MkKey(347, 173, 4, 2)) EXCEPT !.q = <<>>],
   [toPublic(MkKey(347, 173, 4, 2)) EXCEPT !.p = <<>>],
   toPublic(MkKey(1543, 257, 64, 3))}

\* domain parameters handed to params verify: those of ValidParams, scaled
\* ones with other values of g, and ones with q not dividing p - 1
ParamSets ==
  {[p |-> toBuffer(d[1]), q |-> toBuffer(d[2]), g |-> toBuffer(g)] :
     d \in ValidParams \cup {<<34847, 137, 2883>>},
     g \in {0, 1, 2, 3, 4, 5, 2883, 34846}}

(***************************************************************************)
(* The DSA engine as a state machine: one call of sign (pass by pass of    *)
(* its retry loop), verify or params verify.                               *)
(***************************************************************************)
VARIABLES
  pc,        \* where the call is: idle, loop, exit, signed, threw, verified, ...
  backend,   \* "js" (lib/js/dsa.js) or "native" (src/dsa/dsa.c)
  key,       \* the key argument
  msg,       \* the message argument
  attempts,  \* sign: let attempts = 10
  r,         \* sign: let r (-1 while undefined)
  s,         \* sign: let s (-1 while undefined)
  sig,       \* the signature returned by sign or handed to verify
  res,       \* the value returned or the error thrown
  passes,    \* history: passes of sign's loop body made so far
  good,      \* history: passes that produced r # 0 and s # 0
  own        \* history: verify was handed the signature sign returned

dsaVars == <<pc, backend, key, msg, attempts, r, s, sig, res, passes, good, own>>

VARIABLES
  gen,       \* parameter and key generation: a call of paramsGenerate / generate
             \* (its position, sizes, q, p, loop counter, result) or of
             \* privateKeyCreate
  rsa,       \* a call of one of the RSA entry points of lib/native/rsa.js
  obj,       \* the key objects of lib/internal/dsakey.js
  enc,       \* a call of the base64 codec of lib/encoding/base64.js
  nat        \* a call of a key function of src/dsa/dsa.c: privkey verify,
             \* privkey compute, key2dsa

otherVars == <<gen, rsa, obj, enc, nat>>

NoKey == [p |-> <<>>, q |-> <<>>, g |-> <<>>, y |-> <<>>]

NoSig == [r |-> <<>>, s |-> <<>>]

DsaInit ==
  /\ pc = "idle"
  /\ backend = "js"
  /\ key = NoKey
  /\ msg = <<>>
  /\ attempts = 0
  /\ r = -1
  /\ s = -1
  /\ sig = NoSig
  /\ res = "none"
  /\ passes = 0
  /\ good = 0
  /\ own = FALSE

\* dsa.sign(msg, key) of the JS backend, up to the loop
Sign ==
  /\ pc = "idle"
  /\ \E k \in SignKeys, m \in Msgs :
       /\ key' = k
       /\ msg' = m
       /\ backend' = "js"
       /\ IF signInvalidKey(k)
          THEN /\ pc' = "threw"
               /\ res' = "Invalid key."
               /\ attempts' = attempts
          ELSE /\ pc' = "loop"
               /\ res' = res
               /\ attempts' = SIGN_ATTEMPTS
  /\ UNCHANGED <<r, s, sig, passes, good, own>>
  /\ UNCHANGED otherVars

\* after the loop: throw 'Could not sign.' or return the signature
SignAfter(att, rn, sn) ==
  IF signExhausted(att)
  THEN pc' = "threw" /\ res' = "Could not sign." /\ sig' = sig
  ELSE pc' = "signed" /\ res' = res /\ sig' = signResult(key, rn, sn)

\* one evaluation of the loop condition and, if it holds, one pass of the
\* body; a pass that breaks, and a condition that fails, run on to the end
\* of sign
SignPass ==
  /\ pc = "loop"
  /\ IF signLoop(attempts)
     THEN \E k \in signNonces(key) :
            LET b == signBody(msg, key, k, s)
            IN /\ r' = b.r
               /\ s' = b.s
               /\ passes' = passes + 1
               /\ good' = IF b.r # 0 /\ b.s # 0 THEN good + 1 ELSE good
               /\ IF b.brk
                  THEN attempts' = attempts /\ SignAfter(attempts, b.r, b.s)
                  ELSE /\ attempts' = attempts - 1
                       /\ UNCHANGED <<pc, res, sig>>
     ELSE /\ SignAfter(attempts, r, s)
          /\ UNCHANGED <<r, s, attempts, passes, good>>
  /\ UNCHANGED <<backend, key, msg, own>>
  /\ UNCHANGED otherVars

\* bcrypto_dsa_sign of the native backend
NativeSign ==
  /\ pc = "idle"
  /\ \E k \in SignKeys, m \in Msgs :
       /\ key' = k
       /\ msg' = m
       /\ backend' = "native"
       /\ LET out == bcrypto_dsa_sign(m, k)
          IN IF out = {}
             THEN pc' = "refused" /\ res' = FALSE /\ sig' = sig
             ELSE pc' = "signed" /\ res' = TRUE /\ sig' \in out
  /\ UNCHANGED <<attempts, r, s, passes, good, own>>
  /\ UNCHANGED otherVars

\* verify of the backend that signed, on the signature just returned and the
\* public half of the key
VerifyOwn ==
  /\ pc = "signed"
  /\ pc' = "verified"
  /\ own' = TRUE
  /\ key' = toPublic(key)
  /\ res' = IF backend = "js" THEN verify(msg, sig, toPublic(key))
            ELSE bcrypto_dsa_verify(msg, sig, toPublic(key))
  /\ attempts' = 0
  /\ r' = -1
  /\ s' = -1
  /\ passes' = 0
  /\ good' = 0
  /\ UNCHANGED <<backend, msg, sig>>
  /\ UNCHANGED otherVars

\* verify on whatever an untrusted caller hands in
VerifyAny ==
  /\ pc = "idle"
  /\ \E b \in {"js", "native"}, m \in VerifyMsgs, k \in PubKeys,
        rb \in SigBufs, sb \in SigBufs :
       LET sg == [r |-> rb, s |-> sb]
       IN /\ backend' = b
          /\ msg' = m
          /\ key' = k
          /\ sig' = sg
          /\ res' = IF b = "js" THEN verify(m, sg, k) ELSE bcrypto_dsa_verify(m, sg, k)
  /\ pc' = "verified"
  /\ UNCHANGED <<attempts, r, s, passes, good, own>>
  /\ UNCHANGED otherVars

\* bcrypto_dsa_params_verify on parameters an untrusted caller hands in
ParamsVerify ==
  /\ pc = "idle"
  /\ \E d \in ParamSets :
       /\ key' = [p |-> d.p, q |-> d.q, g |-> d.g, y |-> <<>>]
       /\ res' = bcrypto_dsa_params_verify(d)
  /\ pc' = "pverified"
  /\ backend' = "native"
  /\ UNCHANGED <<msg, attempts, r, s, sig, passes, good, own>>
  /\ UNCHANGED otherVars

DsaNext ==
  \/ Sign
  \/ SignPass
  \/ NativeSign
  \/ VerifyOwn
  \/ VerifyAny
  \/ ParamsVerify

(***************************************************************************)
(* lib/js/dsa.js: paramsGenerate, generate and privateKeyCreate.           *)
(***************************************************************************)
\* the primes of probablyPrime's trial division (the primes below 2048 for a
\* p of 1024 bits and more; below 16 for the 16-bit p of this model, so that
\* here too a composite without small factors reaches Miller-Rabin)
TrialPrimes == {2, 3, 5, 7, 11, 13}

\* the rounds of Miller-Rabin that generate asks for
PRIME_ROUNDS == 64

\* the bases Miller-Rabin draws from [2, n-2]
MillerRabinBases(n) == {b \in {2, 3, 19} : b <= n - 2}

RECURSIVE oddPart(_)
\* n - 1 = 2^s * d with d odd: d
oddPart(m) == IF m % 2 = 0 THEN oddPart(m \div 2) ELSE m

RECURSIVE squaresTo(_, _, _)
\* x, x^2, x^4, ... mod n reaches n - 1 before the exponent reaches n - 1
squaresTo(x, e, n) ==
  IF e >= n - 1 THEN FALSE
  ELSE IF x = n - 1 THEN TRUE
  ELSE squaresTo(MulMod(x, x, n), 2 * e, n)

\* one round of Miller-Rabin: n passes on base b
millerRabin(n, b) ==
  LET d == oddPart(n - 1)
      x == modPow(b, d, n)
  IN x = 1 \/ squaresTo(x, d, n)

\* probablyPrime(n, rounds): the answers it can give.  Trial division by the
\* small primes, then Miller-Rabin on rounds random bases: n passes when it
\* passes on every base drawn.
probablyPrime(n, rounds) ==
  IF n < 2 THEN {FALSE}
  ELSE IF n \in TrialPrimes THEN {TRUE}
  ELSE IF \E t \in TrialPrimes : n % t = 0 THEN {FALSE}
  ELSE LET passed == {b \in MillerRabinBases(n) : millerRabin(n, b)}
       IN {drawn \subseteq passed :
             drawn \in {S \in SUBSET MillerRabinBases(n) :
                          S # {} /\ Cardinality(S) <= rounds}}

\* the arguments of paramsGenerate(bits), unsigned integers: <<>> is a call
\* without bits (null)
BitsInputs ==
  {<<>>} \cup {<<b>> : b \in {0, 1023, 1024, 1025, 1500, 2047, 2048, 2049,
                              3071, 3072, 3073}}

\* paramsGenerate, lines 36-46: the sizes handed to generate, or the error
\* of assert((bits >>> 0) === bits) or of the range check
paramsGenerateSizes(bits) ==
  LET b == IF bits = <<>> THEN 2048 ELSE bits[1]
  IN IF b < 0
     THEN [err |-> "AssertionError", L |-> 0, N |-> 0]
     ELSE IF b < 1024 \/ b > 3072
     THEN [err |-> "RangeError", L |-> 0, N |-> 0]
     ELSE [err |-> "none", L |-> b, N |-> IF b < 2048 THEN 160 ELSE 256]

\* generate, lines 249-254: the pairs it does not throw on
generateAllowed(L, N) ==
  ~(/\ ~(L = 1024 /\ N = 160)
    /\ ~(L = 2048 /\ N = 224)
    /\ ~(L = 2048 /\ N = 256)
    /\ ~(L = 3072 /\ N = 256))

\* buf[buf.length - 1] |= 1; buf[0] |= 0x80
setTopAndBottom(buf) ==
  LET low == [buf EXCEPT ![Len(buf)] = IF @ % 2 = 0 THEN @ + 1 ELSE @]
  IN [low EXCEPT ![1] = IF @ < 128 THEN @ + 128 ELSE @]

\* generate, lines 265-270: the candidates for q, from N >>> 3 random bytes
generateQ(N) ==
  {BN(setTopAndBottom(buf)) : buf \in randomFill(Scaled(N) \div 8)}

\* generate, lines 276-285: the candidates for p, from L >>> 3 random bytes:
\* rem = pn mod qn; rem -= 1; pn -= rem
generateP(L, qn) ==
  {LET pn  == BN(setTopAndBottom(buf))
       rem == (pn % qn) - 1
   IN pn - rem : buf \in randomFill(Scaled(L) \div 8)}

\* an acceptance test that forgets the length of p
generateAccept_noLength(L, pn, prime) == prime

\* generate, lines 287-293: the candidate leaves both loops; prime is the
\* answer of probablyPrime(pn, 64)
generateAccept(L, pn, prime) ==
  IF bitLength(pn) < Scaled(L) THEN FALSE
  ELSE IF ~prime THEN FALSE
  ELSE TRUE

RECURSIVE generateG(_, _, _)
\* generate, lines 297-314: g = h^((p-1)/q) mod p for the first h = 2, 3, ...
\* that gives g # 1
generateG(h, pn, qn) ==
  LET e  == (pn - 1) \div qn
      gn == modPow(h, e, pn)
  IN IF gn = 1 THEN generateG(h + 1, pn, qn) ELSE gn

\* the DSAParams object generate returns
generateParams(pn, qn) ==
  [p |-> toBuffer(pn), q |-> toBuffer(qn), g |-> toBuffer(generateG(2, pn, qn))]

\* privateKeyCreate, lines 58-70: the x the sampling loop can leave with
privateKeyCreate_xs(params) ==
  LET qn == BN(params.q)
  IN {xn \in {BN(xb) : xb \in randomFill(bitLength(qn) \div 8)} :
        xn # 0 /\ xn < qn}

\* DSAKey.fromParams(params) / setParams(params) on a new DSAPrivateKey
fromParams(k, params) ==
  [k EXCEPT !.p = params.p, !.q = params.q, !.g = params.g]

\* privateKeyCreate, lines 72-80: the key built around x
privateKeyCreate(params, xn) ==
  LET pn  == BN(params.p)
      gn  == BN(params.g)
      yn  == modPow(gn, xn, pn)
      new == [p |-> <<>>, q |-> <<>>, g |-> <<>>, y |-> <<>>, x |-> <<>>]
  IN [fromParams(new, params) EXCEPT !.x = toBuffer(xn), !.y = toBuffer(yn)]

\* parameters handed to privateKeyCreate: two valid sets with an 8-bit q and
\* one whose q has 9 bits (q = 257, p = 1543, g = 64)
CreateParams ==
  {[p |-> toBuffer(d[1]), q |-> toBuffer(d[2]), g |-> toBuffer(d[3])] :
     d \in {<<347, 173, 4>>, <<34847, 131, 2883>>, <<1543, 257, 64>>}}

NoParams == [p |-> <<>>, q |-> <<>>, g |-> <<>>]

GenIdle ==
  [pc |-> "idle", fn |-> "", bits |-> <<>>, L |-> 0, N |-> 0, qn |-> 0, pn |-> 0, i |-> 0,
   err |-> "none", params |-> NoParams,
   key |-> [p |-> <<>>, q |-> <<>>, g |-> <<>>, y |-> <<>>, x |-> <<>>]]

\* paramsGenerate(bits), up to the first pass of generate's outer loop
ParamsGenerate ==
  /\ gen.pc = "idle"
  /\ \E bits \in BitsInputs :
       LET sz == paramsGenerateSizes(bits)
       IN gen' = IF sz.err # "none"
                 THEN [gen EXCEPT !.fn = "paramsGenerate", !.pc = "threw", !.bits = bits, !.err = sz.err]
                 ELSE IF ~generateAllowed(sz.L, sz.N)
                 THEN [gen EXCEPT !.fn = "paramsGenerate", !.pc = "threw", !.bits = bits,
                                  !.L = sz.L, !.N = sz.N,
                                  !.err = "Invalid parameter sizes."]
                 ELSE [gen EXCEPT !.fn = "paramsGenerate", !.pc = "q", !.bits = bits,
                                  !.L = sz.L, !.N = sz.N]
  /\ UNCHANGED <<dsaVars, rsa, obj, enc, nat>>

\* the sizes handed to generate(L, N) when it is called directly
GenerateLs == {0, 1024, 1500, 2048, 3072, 4096}

GenerateNs == {0, 160, 224, 256, 384}

\* generate(L, N), up to the first pass of its outer loop
Generate ==
  /\ gen.pc = "idle"
  /\ \E L \in GenerateLs, N \in GenerateNs :
       gen' = IF ~generateAllowed(L, N)
              THEN [gen EXCEPT !.fn = "generate", !.pc = "threw",
                               !.L = L, !.N = N,
                               !.err = "Invalid parameter sizes."]
              ELSE [gen EXCEPT !.fn = "generate", !.pc = "q",
                               !.L = L, !.N = N]
  /\ UNCHANGED <<dsaVars, rsa, obj, enc, nat>>

\* the search is run at the smallest pair of sizes, (1024, 160), as
\* paramsGenerate(1024) starts it
Searched == gen.fn = "paramsGenerate" /\ gen.L = 1024 /\ gen.N = 160

\* generate, one pass of the outer loop up to the inner loop: a fresh q
GenerateQ ==
  /\ gen.pc = "q"
  /\ Searched
  /\ \E qn \in generateQ(gen.N) :
       \E prime \in probablyPrime(qn, PRIME_ROUNDS) :
         gen' = IF ~prime
                THEN [gen EXCEPT !.qn = qn]
                ELSE [gen EXCEPT !.qn = qn, !.pc = "p", !.i = 0]
  /\ UNCHANGED <<dsaVars, rsa, obj, enc, nat>>

\* one candidate more for every q
candidates_more(L) == 4 * Scaled(L) + 1

\* the candidates for p drawn for one q: for (let i = 0; i < 4 * L; i++)
candidates(L) == 4 * Scaled(L)

\* generate, one pass of the inner loop (or its end after 4L passes); an
\* accepted candidate runs on to the end of generate
GenerateP ==
  /\ gen.pc = "p"
  /\ IF gen.i < candidates(gen.L)
     THEN \E pn \in generateP(gen.L, gen.qn) :
            \E prime \in probablyPrime(pn, PRIME_ROUNDS) :
              gen' = IF generateAccept(gen.L, pn, prime)
                     THEN [gen EXCEPT !.pn = pn, !.pc = "done",
                                      !.params = generateParams(pn, gen.qn)]
                     ELSE [gen EXCEPT !.pn = pn, !.i = gen.i + 1]
     ELSE gen' = [gen EXCEPT !.pc = "q"]
  /\ UNCHANGED <<dsaVars, rsa, obj, enc, nat>>

\* privateKeyCreate(params)
PrivateKeyCreate ==
  /\ gen.pc = "idle"
  /\ \E params \in CreateParams :
       \E xn \in privateKeyCreate_xs(params) :
         gen' = [gen EXCEPT !.pc = "created", !.params = params,
                            !.key = privateKeyCreate(params, xn)]
  /\ UNCHANGED <<dsaVars, rsa, obj, enc, nat>>

GenNext ==
  \/ ParamsGenerate
  \/ Generate
  \/ GenerateQ
  \/ GenerateP
  \/ PrivateKeyCreate

(***************************************************************************)
(* lib/native/rsa.js: the verify family.  The DER codec of the key classes *)
(* and the native binding are the ones the specification describes.        *)
(***************************************************************************)
DerFail == [ok |-> FALSE, ints |-> <<>>]

RECURSIVE derReadInts(_, _)
\* the INTEGERs of buf from pos on: tag 0x02, short definite length,
\* nonnegative, minimal
derReadInts(buf, pos) ==
  IF pos > Len(buf) THEN [ok |-> TRUE, ints |-> <<>>]
  ELSE IF pos + 1 > Len(buf) THEN DerFail
  ELSE LET tag == buf[pos]
           len == buf[pos + 1]
       IN IF tag # 2 \/ len = 0 \/ len >= 128 \/ pos + 1 + len > Len(buf)
          THEN DerFail
          ELSE LET body == SubSeq(buf, pos + 2, pos + 1 + len)
                   rest == derReadInts(buf, pos + 2 + len)
               IN IF body[1] >= 128 THEN DerFail
                  ELSE IF len > 1 /\ body[1] = 0 /\ body[2] < 128 THEN DerFail
                  ELSE IF ~rest.ok THEN DerFail
                  ELSE [ok |-> TRUE, ints |-> <<BN(body)>> \o rest.ints]

\* a SEQUENCE (tag 0x30) of INTEGERs that fills buf exactly
derDecode(buf) ==
  IF Len(buf) < 2 THEN DerFail
  ELSE IF buf[1] # 48 \/ buf[2] >= 128 \/ buf[2] # Len(buf) - 2 THEN DerFail
  ELSE derReadInts(buf, 3)

\* the DER INTEGER of n
derInteger(n) ==
  LET b    == toBuffer(n)
      body == IF b = <<>> THEN <<0>>
              ELSE IF b[1] >= 128 THEN <<0>> \o b ELSE b
  IN <<2, Len(body)>> \o body

RECURSIVE derIntegers(_)
\* the DER INTEGERs of ints, one after the other
derIntegers(ints) ==
  IF ints = <<>> THEN <<>>
  ELSE derInteger(Head(ints)) \o derIntegers(Tail(ints))

\* the DER SEQUENCE of the INTEGERs ints
derEncode(ints) ==
  LET body == derIntegers(ints) IN <<48, Len(body)>> \o body

\* a JavaScript value handed in as a key, msg or sig: a Buffer or not
Buf(bytes) == [type |-> "Buffer", bytes |-> bytes]

NotBuffer == [type |-> "string", bytes |-> <<>>]

NoRsaKey ==
  [ok |-> FALSE, n |-> 0, e |-> 0, d |-> 0, p |-> 0, q |-> 0,
   dp |-> 0, dq |-> 0, qi |-> 0]

\* RSAPublicKey.decode(key): throws (ok = FALSE) unless key is the DER of
\* SEQUENCE { n, e }
RSAPublicKey_decode(k) ==
  IF k.type # "Buffer" THEN NoRsaKey
  ELSE LET d == derDecode(k.bytes)
       IN IF ~d.ok \/ Len(d.ints) # 2 THEN NoRsaKey
          ELSE [NoRsaKey EXCEPT !.ok = TRUE, !.n = d.ints[1], !.e = d.ints[2]]

\* RSAPrivateKey.decode(key): throws (ok = FALSE) unless key is the DER of
\* SEQUENCE { version (0), n, e, d, p, q, dp, dq, qi }
RSAPrivateKey_decode(k) ==
  IF k.type # "Buffer" THEN NoRsaKey
  ELSE LET d == derDecode(k.bytes)
       IN IF ~d.ok \/ Len(d.ints) # 9 THEN NoRsaKey
          ELSE IF d.ints[1] # 0 THEN NoRsaKey
          ELSE [ok |-> TRUE, n |-> d.ints[2], e |-> d.ints[3], d |-> d.ints[4],
                p |-> d.ints[5], q |-> d.ints[6], dp |-> d.ints[7],
                dq |-> d.ints[8], qi |-> d.ints[9]]

\* the smallest modulus, in bits, and the largest exponent, in bits, that a
\* valid key has (at the scale of the model)
RSA_MIN_BITS == 10

RSA_MAX_EXP_BITS == 8

\* binding.publicKeyVerify(n, e)
binding_publicKeyVerify(n, e) ==
  /\ bitLength(n) >= RSA_MIN_BITS
  /\ e >= 3
  /\ e % 2 = 1
  /\ bitLength(e) <= RSA_MAX_EXP_BITS

\* lcm(p - 1, q - 1)
lambda(p, q) == ((p - 1) * (q - 1)) \div Egcd(p - 1, q - 1)[1]

\* binding.privateKeyVerify(n, e, d, p, q, dp, dq, qi): the answers it can
\* give (p and q are tested with probablyPrime)
binding_privateKeyVerify(k) ==
  IF ~binding_publicKeyVerify(k.n, k.e) THEN {FALSE}
  ELSE IF k.p < 2 \/ k.q < 2 THEN {FALSE}
  ELSE {/\ pp
        /\ qp
        /\ k.n = k.p * k.q
        /\ k.dp = k.d % (k.p - 1)
        /\ k.dq = k.d % (k.q - 1)
        /\ (k.qi * k.q) % k.p = 1
        /\ (k.e * k.d) % lambda(k.p, k.q) = 1 :
          pp \in probablyPrime(k.p, PRIME_ROUNDS),
          qp \in probablyPrime(k.q, PRIME_ROUNDS)}

\* the digest size, in bytes, of the hashes the binding knows (0: unknown)
HashSize(id) == IF id = "SHA256" THEN 1 ELSE 0

\* the encoded message of PKCS#1 v1.5 in k bytes; the two bytes of the
\* model's moduli hold the block type and the digest
pkcs1EM(id, digest, k) == leftPad(<<1>> \o digest, k)

\* binding.verify(id, msg, sig, n, e): encode and compare
binding_verify(id, m, sg, n, e) ==
  LET k == byteLength(n)
  IN /\ HashSize(id) > 0
     /\ Len(m) = HashSize(id)
     /\ Len(sg) = k
     /\ n > 0
     /\ BN(sg) < n
     /\ toArrayLike(PowMod(BN(sg), e, n), k) = pkcs1EM(id, m, k)

\* what a call ends with: an exception or a value
Raise == [raised |-> TRUE, value |-> FALSE]

Return(v) == [raised |-> FALSE, value |-> v]

\* rsa.publicVerify(key)
publicVerify(k) == Return(binding_publicKeyVerify(k.n, k.e))

\* rsa.privateVerify(key): the ways it can end
privateVerify(k) == {Return(v) : v \in binding_privateKeyVerify(k)}

\* publicKeyVerify without the try around decode
publicKeyVerify_noTry(k) ==
  IF k.type # "Buffer" THEN Raise
  ELSE LET pub == RSAPublicKey_decode(k)
       IN IF ~pub.ok THEN Raise ELSE publicVerify(pub)

\* rsa.publicKeyVerify(key)
publicKeyVerify(k) ==
  IF k.type # "Buffer" THEN Raise
  ELSE LET pub == RSAPublicKey_decode(k)
       IN IF ~pub.ok THEN Return(FALSE) ELSE publicVerify(pub)

\* rsa.privateKeyVerify(key): the ways it can end
privateKeyVerify(k) ==
  IF k.type # "Buffer" THEN {Raise}
  ELSE LET priv == RSAPrivateKey_decode(k)
       IN IF ~priv.ok THEN {Return(FALSE)} ELSE privateVerify(priv)

\* hash && typeof hash.id === 'string'
hashSelected(hash) == hash.kind = "object" /\ hash.idType = "string"

\* rsa.verifyKey(hash, msg, sig, key)
verifyKey(hash, m, sg, k) ==
  IF ~hashSelected(hash) THEN Raise
  ELSE IF m.type # "Buffer" THEN Raise
  ELSE IF sg.type # "Buffer" THEN Raise
  ELSE Return(binding_verify(hash.id, m.bytes, sg.bytes, k.n, k.e))

\* rsa.verify(hash, msg, sig, key)
rsa_verify(hash, m, sg, k) ==
  LET pub == RSAPublicKey_decode(k)
  IN IF ~pub.ok THEN Return(FALSE) ELSE verifyKey(hash, m, sg, pub)

\* the key of the model: n = 61 * 53, e = 17, d = 413
PubDER == derEncode(<<3233, 17>>)

PrivDER == derEncode(<<0, 3233, 17, 413, 61, 53, 53, 49, 38>>)

\* keys handed in: no Buffer, the two good encodings, a public key with an
\* even exponent, a private key with a wrong dp and one with a composite p,
\* an empty buffer, a trailing byte, a wrong tag, a truncated buffer, a
\* negative and a non-minimal INTEGER, a long-form length
RsaKeys ==
  {NotBuffer} \cup
  {Buf(b) : b \in {PubDER, PrivDER,
                   derEncode(<<3233, 16>>),
                   derEncode(<<0, 3233, 17, 413, 61, 53, 7, 49, 38>>),
                   derEncode(<<0, 3355, 17, 413, 55, 61, 35, 53, 10>>),
                   <<>>,
                   PubDER \o <<0>>,
                   <<49>> \o Tail(PubDER),
                   SubSeq(PubDER, 1, Len(PubDER) - 1),
                   <<48, 6, 2, 1, 200, 2, 1, 17>>,
                   <<48, 7, 2, 2, 0, 5, 2, 1, 17>>,
                   <<48, 129, 7>> \o SubSeq(PubDER, 3, Len(PubDER))}}

\* hashes handed in: null, an object without a string id, SHA256, and an
\* id the binding does not know
RsaHashes ==
  {[kind |-> "null", idType |-> "undefined", id |-> ""],
   [kind |-> "object", idType |-> "undefined", id |-> ""],
   [kind |-> "object", idType |-> "string", id |-> "SHA256"],
   [kind |-> "object", idType |-> "string", id |-> "MD2"]}

\* digests handed in
RsaMsgs == {NotBuffer, Buf(<<65>>), Buf(<<66>>), Buf(<<65, 66>>)}

\* the PKCS#1 v1.5 signature of digest under the key of the model
RsaSignature(digest) ==
  toArrayLike(PowMod(BN(pkcs1EM("SHA256", digest, 2)), 413, 3233), 2)

\* signatures handed in
RsaSigs ==
  {NotBuffer, Buf(RsaSignature(<<65>>)), Buf(<<1, 2>>), Buf(<<>>),
   Buf(<<255, 255>>), Buf(<<0>> \o RsaSignature(<<65>>))}

NoValue == [type |-> "undefined", bytes |-> <<>>]

NoHash == [kind |-> "undefined", idType |-> "undefined", id |-> ""]

RsaIdle ==
  [pc |-> "idle", fn |-> "", hash |-> NoHash, msg |-> NoValue, sig |-> NoValue,
   key |-> NoValue, raised |-> FALSE, value |-> FALSE]

\* the state after a call of fn that ended with out
RsaCalled(fn, hash, m, sg, k, out) ==
  [pc |-> "called", fn |-> fn, hash |-> hash, msg |-> m, sig |-> sg,
   key |-> k, raised |-> out.raised, value |-> out.value]

\* rsa.verify(hash, msg, sig, key)
RsaVerify ==
  /\ rsa.pc = "idle"
  /\ \E hash \in RsaHashes, m \in RsaMsgs, sg \in RsaSigs, k \in RsaKeys :
       rsa' = RsaCalled("verify", hash, m, sg, k, rsa_verify(hash, m, sg, k))
  /\ UNCHANGED <<dsaVars, gen, obj, enc, nat>>

\* rsa.publicKeyVerify(key)
RsaPublicKeyVerify ==
  /\ rsa.pc = "idle"
  /\ \E k \in RsaKeys :
       rsa' = RsaCalled("publicKeyVerify", NoHash, NoValue, NoValue, k,
                        publicKeyVerify(k))
  /\ UNCHANGED <<dsaVars, gen, obj, enc, nat>>

\* rsa.privateKeyVerify(key)
RsaPrivateKeyVerify ==
  /\ rsa.pc = "idle"
  /\ \E k \in RsaKeys :
       \E out \in privateKeyVerify(k) :
         rsa' = RsaCalled("privateKeyVerify", NoHash, NoValue, NoValue, k, out)
  /\ UNCHANGED <<dsaVars, gen, obj, enc, nat>>

RsaNext ==
  \/ RsaVerify
  \/ RsaPublicKeyVerify
  \/ RsaPrivateKeyVerify

(***************************************************************************)
(* lib/internal/dsakey.js: the key objects.  A string is the sequence of   *)
(* its characters: 0..63 are the characters of the URL-safe alphabet       *)
(* A-Z a-z 0-9 - _ by their value, 64 is '=', 65 is '+', 66 is '/'.        *)
(***************************************************************************)
\* base64.testURL(str): only characters of the URL-safe alphabet, and a
\* length that some byte string encodes to
testURL(str) ==
  /\ \A i \in 1..Len(str) : str[i] < 64
  /\ Len(str) % 4 # 1

RECURSIVE sextets(_)
\* the number a sequence of 6-bit characters spells
sextets(str) ==
  IF str = <<>> THEN 0
  ELSE sextets(SubSeq(str, 1, Len(str) - 1)) * 64 + str[Len(str)]

\* base64.decodeURL(str) of a str that passes testURL: every four
\* characters give three bytes, a rest of two or three characters gives one
\* or two bytes and drops the bits left over
decodeChunk(str) ==
  LET n == sextets(str)
  IN IF Len(str) = 4 THEN toArrayLike(n, 3)
     ELSE IF Len(str) = 3 THEN toArrayLike(n \div 4, 2)
     ELSE IF Len(str) = 2 THEN toArrayLike(n \div 16, 1)
     ELSE <<>>

RECURSIVE decodeURL(_)
decodeURL(str) ==
  IF Len(str) <= 4 THEN decodeChunk(str)
  ELSE decodeChunk(SubSeq(str, 1, 4)) \o decodeURL(SubSeq(str, 5, Len(str)))

\* the fields an object of a class has
Fields(cls) ==
  IF cls = "DSAParams" THEN {"p", "q", "g"}
  ELSE IF cls = "DSAPublicKey" THEN {"p", "q", "g", "y"}
  ELSE {"p", "q", "g", "y", "x"}

Classes == {"DSAParams", "DSAPublicKey", "DSAPrivateKey"}

\* the constructors: new DSAParams(p, q, g), new DSAPublicKey(p, q, g, y),
\* new DSAPrivateKey(p, q, g, y, x); a field the class does not have is
\* kept empty
construct(cls, p, q, g, y, x) ==
  [cls |-> cls,
   p |-> trimLeft(p), q |-> trimLeft(q), g |-> trimLeft(g),
   y |-> IF "y" \in Fields(cls) THEN trimLeft(y) ELSE <<>>,
   x |-> IF "x" \in Fields(cls) THEN trimLeft(x) ELSE <<>>,
   threw |-> FALSE]

\* setP, setQ, setG, setY, setX
setField(k, f, buf) == [k EXCEPT ![f] = trimLeft(buf), !.threw = FALSE]

\* DSAKey.toParams() (DSAParams.toParams() returns this)
DSAKey_toParams(k) ==
  IF k.cls = "DSAParams" THEN [k EXCEPT !.threw = FALSE]
  ELSE construct("DSAParams", k.p, k.q, k.g, <<>>, <<>>)

\* DSAPrivateKey.toPublic() (DSAKey.toPublic() returns this)
DSAKey_toPublic(k) ==
  IF k.cls = "DSAPrivateKey"
  THEN [cls |-> "DSAPublicKey", p |-> k.p, q |-> k.q, g |-> k.g, y |-> k.y,
        x |-> <<>>, threw |-> FALSE]
  ELSE [k EXCEPT !.threw = FALSE]

\* fromJSON with trimLeft on every field it assigns
fromJSON_trimmed(k, json) ==
  IF json.kty # "DSA" THEN [k EXCEPT !.threw = TRUE]
  ELSE IF ~testURL(json.p) THEN [k EXCEPT !.threw = TRUE]
  ELSE IF ~testURL(json.q)
  THEN [k EXCEPT !.p = trimLeft(decodeURL(json.p)), !.threw = TRUE]
  ELSE IF ~testURL(json.g)
  THEN [k EXCEPT !.p = trimLeft(decodeURL(json.p)),
                 !.q = trimLeft(decodeURL(json.q)), !.threw = TRUE]
  ELSE LET pqg == [k EXCEPT !.p = trimLeft(decodeURL(json.p)),
                            !.q = trimLeft(decodeURL(json.q)),
                            !.g = trimLeft(decodeURL(json.g))]
           hasY == /\ "y" \in Fields(k.cls)
                   /\ ~(k.cls = "DSAPrivateKey" /\ json.yNull)
       IN IF k.cls = "DSAParams" THEN [pqg EXCEPT !.threw = FALSE]
          ELSE IF hasY /\ (json.yNull \/ ~testURL(json.y))
          THEN [pqg EXCEPT !.threw = TRUE]
          ELSE LET pqgy == IF hasY
                           THEN [pqg EXCEPT !.y = trimLeft(decodeURL(json.y))]
                           ELSE pqg
               IN IF k.cls = "DSAPublicKey" THEN [pqgy EXCEPT !.threw = FALSE]
                  ELSE IF ~testURL(json.x) THEN [pqgy EXCEPT !.threw = TRUE]
                  ELSE [pqgy EXCEPT !.x = trimLeft(decodeURL(json.x)),
                                    !.threw = FALSE]

\* DSAParams.fromJSON, DSAKey.fromJSON, DSAPrivateKey.fromJSON: the fields
\* are assigned in order, and a string that does not decode throws after
\* the fields before it were assigned
fromJSON(k, json) ==
  IF json.kty # "DSA" THEN [k EXCEPT !.threw = TRUE]
  ELSE IF ~testURL(json.p) THEN [k EXCEPT !.threw = TRUE]
  ELSE IF ~testURL(json.q)
  THEN [k EXCEPT !.p = decodeURL(json.p), !.threw = TRUE]
  ELSE IF ~testURL(json.g)
  THEN [k EXCEPT !.p = decodeURL(json.p), !.q = decodeURL(json.q),
                 !.threw = TRUE]
  ELSE LET pqg == [k EXCEPT !.p = decodeURL(json.p),
                            !.q = decodeURL(json.q),
                            !.g = decodeURL(json.g)]
           hasY == /\ "y" \in Fields(k.cls)
                   /\ ~(k.cls = "DSAPrivateKey" /\ json.yNull)
       IN IF k.cls = "DSAParams" THEN [pqg EXCEPT !.threw = FALSE]
          ELSE IF hasY /\ (json.yNull \/ ~testURL(json.y))
          THEN [pqg EXCEPT !.threw = TRUE]
          ELSE LET pqgy == IF hasY
                           THEN [pqg EXCEPT !.y = decodeURL(json.y)]
                           ELSE pqg
               IN IF k.cls = "DSAPublicKey" THEN [pqgy EXCEPT !.threw = FALSE]
                  ELSE IF ~testURL(json.x) THEN [pqgy EXCEPT !.threw = TRUE]
                  ELSE [pqgy EXCEPT !.x = decodeURL(json.x), !.threw = FALSE]

\* the fields fromJSON has assigned when it returns or throws
fromJSON_assigned(k, json) ==
  IF json.kty # "DSA" THEN {}
  ELSE IF ~testURL(json.p) THEN {}
  ELSE IF ~testURL(json.q) THEN {"p"}
  ELSE IF ~testURL(json.g) THEN {"p", "q"}
  ELSE LET hasY == /\ "y" \in Fields(k.cls)
                   /\ ~(k.cls = "DSAPrivateKey" /\ json.yNull)
       IN IF k.cls = "DSAParams" THEN {"p", "q", "g"}
          ELSE IF hasY /\ (json.yNull \/ ~testURL(json.y)) THEN {"p", "q", "g"}
          ELSE LET pqgy == IF hasY THEN {"p", "q", "g", "y"} ELSE {"p", "q", "g"}
               IN IF k.cls = "DSAPublicKey" THEN pqgy
                  ELSE IF ~testURL(json.x) THEN pqgy
                  ELSE pqgy \cup {"x"}

(***************************************************************************)
(* Which Buffer a field holds.  shared is the set of fields of the object  *)
(* whose Buffer is also held by a field of the object it was derived from: *)
(* what is written in place through one is read through the other.         *)
(***************************************************************************)
\* fromParams: this.p = params.p; this.q = params.q; this.g = params.g
fromParams_shared(sh) == sh \cup {"p", "q", "g"}

\* DSAPrivateKey.toPublic(): key.p = this.p, ..., key.y = this.y on a new
\* DSAPublicKey; DSAKey.toPublic() returns this
toPublic_shared(k, sh) ==
  IF k.cls = "DSAPrivateKey" THEN {"p", "q", "g", "y"} ELSE sh

\* DSAKey.toParams(): new DSAParams(this.p, this.q, this.g), whose fields are
\* what trimLeft returns for the Buffers of this: the same memory or a copy;
\* DSAParams.toParams() returns this
toParams_shared(k, sh) ==
  IF k.cls = "DSAParams" THEN {sh} ELSE {{}, {"p", "q", "g"}}

\* the buffers handed to constructors and setters: zero, 1 with a leading
\* zero byte, and 2
ObjBufs == {<<>>, <<0, 1>>, <<2>>}

\* the strings of a JSON key: "AAE" (00 01), "Ag" (02) and the padded "Ag=="
JsonStrs == {<<0, 0, 4>>, <<0, 32>>, <<0, 32, 64, 64>>}

\* the JSON objects handed to fromJSON: keys of type DSA with or without y,
\* and a key of another type
Jsons ==
  {[kty |-> "DSA", p |-> p, q |-> q, g |-> g, y |-> y, yNull |-> FALSE,
    x |-> x] : p \in JsonStrs, q \in JsonStrs, g \in JsonStrs,
               y \in JsonStrs, x \in JsonStrs}
  \cup {[kty |-> "DSA", p |-> p, q |-> <<0, 32>>, g |-> <<0, 32>>,
         y |-> <<>>, yNull |-> TRUE, x |-> x] :
          p \in JsonStrs, x \in JsonStrs}
  \cup {[kty |-> "RSA", p |-> <<0, 32>>, q |-> <<0, 32>>, g |-> <<0, 32>>,
         y |-> <<0, 32>>, yNull |-> FALSE, x |-> <<0, 32>>]}

\* the DSAParams objects handed to setParams / fromParams: built by the
\* constructor or by DSAParams.fromJSON
ParamsObjects ==
  {construct("DSAParams", p, q, g, <<>>, <<>>) :
     p \in ObjBufs, q \in ObjBufs, g \in ObjBufs}
  \cup {fromJSON(construct("DSAParams", <<>>, <<>>, <<>>, <<>>, <<>>), j) :
          j \in {j \in Jsons : j.q = <<0, 32>> /\ j.x = <<0, 32>>}}

ObjIdle ==
  [pc |-> "idle", cls |-> "", p |-> <<>>, q |-> <<>>, g |-> <<>>, y |-> <<>>,
   x |-> <<>>, threw |-> FALSE, shared |-> {}]

\* the object the model follows, as a state
Live(k) ==
  [pc |-> "live", cls |-> k.cls, p |-> k.p, q |-> k.q, g |-> k.g, y |-> k.y,
   x |-> k.x, threw |-> k.threw, shared |-> {}]

\* a constructor: the object the model follows comes to be
ObjNew ==
  /\ obj.pc = "idle"
  /\ \E cls \in Classes :
       \E p \in ObjBufs, q \in ObjBufs, g \in ObjBufs, y \in ObjBufs,
          x \in ObjBufs :
         obj' = Live(construct(cls, p, q, g, y, x))
  /\ UNCHANGED <<dsaVars, gen, rsa, enc, nat>>

\* setP, setQ, setG, setY, setX
ObjSet ==
  /\ obj.pc = "live"
  /\ \E f \in Fields(obj.cls), buf \in ObjBufs :
       obj' = [Live(setField(obj, f, buf)) EXCEPT !.shared = obj.shared \ {f}]
  /\ UNCHANGED <<dsaVars, gen, rsa, enc, nat>>

\* setParams(params) / fromParams(params)
ObjSetParams ==
  /\ obj.pc = "live"
  /\ obj.cls # "DSAParams"
  /\ \E params \in ParamsObjects :
       obj' = [Live([fromParams(obj, params) EXCEPT !.threw = FALSE])
                 EXCEPT !.shared = fromParams_shared(obj.shared)]
  /\ UNCHANGED <<dsaVars, gen, rsa, enc, nat>>

\* fromJSON(json), on an object or through the static fromJSON
ObjFromJSON ==
  /\ \E json \in Jsons :
       \/ /\ obj.pc = "live"
          /\ obj' = [Live(fromJSON(obj, json)) EXCEPT
                       !.shared = obj.shared \ fromJSON_assigned(obj, json)]
       \/ /\ obj.pc = "idle"
          /\ \E cls \in Classes :
            obj' = Live(fromJSON(construct(cls, <<>>, <<>>, <<>>, <<>>, <<>>),
                                 json))
  /\ UNCHANGED <<dsaVars, gen, rsa, enc, nat>>

\* toPublic(): the model follows the object returned
ObjToPublic ==
  /\ obj.pc = "live"
  /\ obj.cls # "DSAParams"
  /\ obj' = [Live(DSAKey_toPublic(obj)) EXCEPT
               !.shared = toPublic_shared(obj, obj.shared)]
  /\ UNCHANGED <<dsaVars, gen, rsa, enc, nat>>

\* toParams(): the model follows the object returned
ObjToParams ==
  /\ obj.pc = "live"
  /\ \E sh \in toParams_shared(obj, obj.shared) :
       obj' = [Live(DSAKey_toParams(obj)) EXCEPT !.shared = sh]
  /\ UNCHANGED <<dsaVars, gen, rsa, enc, nat>>

ObjNext ==
  \/ ObjNew
  \/ ObjSet
  \/ ObjSetParams
  \/ ObjFromJSON
  \/ ObjToPublic
  \/ ObjToParams

(***************************************************************************)
(* lib/encoding/base64.js as the tests of test/base64-test.js pin it down. *)
(* A text is the sequence of its characters, as for the key objects; 67 is *)
(* the blank.                                                              *)
(***************************************************************************)
\* texts the standard decoder must refuse
invalid ==
  {<<67, 25, 32, 64, 64>>,
   <<25, 32, 64, 64, 67>>,
   <<25, 67, 32, 64, 64>>,
   <<25, 32, 67, 64, 64>>,
   <<25, 32>>,
   <<25, 38, 60>>,
   <<25, 38, 61, 47, 24, 32>>,
   <<25, 38, 61, 47, 24, 38, 4>>,
   <<20, 62, 36, 54, 14, 50, 37, 34, 63, 10, 60>>}

\* texts the URL-safe decoder must refuse
urlInvalid ==
  {<<25, 32, 64, 64>>,
   <<25, 38, 60, 64>>,
   <<25, 38, 61, 47, 24, 32, 64, 64>>,
   <<25, 38, 61, 47, 24, 38, 4, 64>>,
   <<20, 65, 36, 54, 14, 50, 37, 34, 66, 10, 60, 64>>}

\* the test vectors of standard base64 (RFC 4648 section 10): <<data, text>>
vectors ==
  {<<<<>>, <<>>>>,
   <<<<102>>, <<25, 32, 64, 64>>>>,
   <<<<102, 111>>, <<25, 38, 60, 64>>>>,
   <<<<102, 111, 111>>, <<25, 38, 61, 47>>>>,
   <<<<102, 111, 111, 98>>, <<25, 38, 61, 47, 24, 32, 64, 64>>>>,
   <<<<102, 111, 111, 98, 97>>, <<25, 38, 61, 47, 24, 38, 4, 64>>>>,
   <<<<102, 111, 111, 98, 97, 114>>, <<25, 38, 61, 47, 24, 38, 5, 50>>>>,
   <<<<83, 233, 54, 59, 41, 98, 252, 175>>, <<20, 65, 36, 54, 14, 50, 37, 34, 66, 10, 60, 64>>>>}

\* URL-safe vectors that expect the padded standard texts
urlVectors_padded == vectors

\* the test vectors of URL-safe base64: <<data, text>>
urlVectors ==
  {<<<<>>, <<>>>>,
   <<<<102>>, <<25, 32>>>>,
   <<<<102, 111>>, <<25, 38, 60>>>>,
   <<<<102, 111, 111>>, <<25, 38, 61, 47>>>>,
   <<<<102, 111, 111, 98>>, <<25, 38, 61, 47, 24, 32>>>>,
   <<<<102, 111, 111, 98, 97>>, <<25, 38, 61, 47, 24, 38, 4>>>>,
   <<<<102, 111, 111, 98, 97, 114>>, <<25, 38, 61, 47, 24, 38, 5, 50>>>>,
   <<<<83, 233, 54, 59, 41, 98, 252, 175>>, <<20, 62, 36, 54, 14, 50, 37, 34, 63, 10, 60>>>>}

\* the bounds of the codec's inputs: bytes of a buffer, characters of a text
MaxDataLen == 3

MaxTextLen == 4

RECURSIVE toSextets(_, _)
\* the len characters that spell the number n, most significant first
toSextets(n, len) ==
  IF len = 0 THEN <<>>
  ELSE Append(toSextets(n \div 64, len - 1), n % 64)

\* one group of encodeURL: three bytes give four characters, a rest of two
\* bytes gives three and a rest of one byte gives two, with zero bits filled
\* in and no padding
encodeChunk(buf) ==
  LET n == BN(buf)
  IN IF Len(buf) = 3 THEN toSextets(n, 4)
     ELSE IF Len(buf) = 2 THEN toSextets(n * 4, 3)
     ELSE IF Len(buf) = 1 THEN toSextets(n * 16, 2)
     ELSE <<>>

RECURSIVE encodeURL(_)
\* base64.encodeURL(buf)
encodeURL(buf) ==
  IF Len(buf) <= 3 THEN encodeChunk(buf)
  ELSE encodeChunk(SubSeq(buf, 1, 3)) \o encodeURL(SubSeq(buf, 4, Len(buf)))

\* the padding that standard base64 puts after n bytes
padding(n) ==
  IF n % 3 = 1 THEN <<64, 64>> ELSE IF n % 3 = 2 THEN <<64>> ELSE <<>>

\* a character of the URL-safe alphabet as the standard alphabet has it:
\* '-' is '+' and '_' is '/'
toStandard(c) == IF c = 62 THEN 65 ELSE IF c = 63 THEN 66 ELSE c

toURL(c) == IF c = 65 THEN 62 ELSE IF c = 66 THEN 63 ELSE c

\* base64.encode(buf): the standard alphabet, padded to a multiple of four
encode(buf) ==
  LET str == encodeURL(buf)
  IN [i \in 1..Len(str) |-> toStandard(str[i])] \o padding(Len(buf))

RECURSIVE unpadded(_)
\* a text without the '=' at its end
unpadded(str) ==
  IF Len(str) > 0 /\ str[Len(str)] = 64
  THEN unpadded(SubSeq(str, 1, Len(str) - 1))
  ELSE str

\* base64.test(str): the standard alphabet only, padded with '=' to a
\* multiple of four characters
test(str) ==
  LET text == unpadded(str)
  IN /\ Len(str) % 4 = 0
     /\ Len(str) - Len(text) <= 2
     /\ Len(text) % 4 # 1
     /\ \A i \in 1..Len(text) : text[i] < 62 \/ text[i] = 65 \/ text[i] = 66

\* base64.decode(str) of a str that passes test
decode(str) ==
  LET text == unpadded(str)
  IN decodeURL([i \in 1..Len(text) |-> toURL(text[i])])

\* the buffers handed to the encoders
EncData == BytesUpTo({0, 102, 255}, MaxDataLen) \cup {v[1] : v \in urlVectors}

\* the characters of the texts handed to the decoders: A, Z, g, -, =, +, /
\* and the blank
TextChars == {0, 25, 32, 62, 64, 65, 67}

\* the texts handed to the decoders, those of the tests among them
Texts ==
  UNION {[1..l -> TextChars] : l \in 0..MaxTextLen}
    \cup invalid \cup urlInvalid
    \cup {v[2] : v \in vectors} \cup {v[2] : v \in urlVectors}

EncIdle ==
  [pc |-> "idle", fn |-> "", data |-> <<>>, str |-> <<>>, threw |-> FALSE,
   back |-> <<>>]

\* encodeURL(data) and decodeURL of its result
EncodeURL ==
  /\ enc.pc = "idle"
  /\ \E d \in EncData :
       LET str == encodeURL(d)
       IN enc' = [pc |-> "encoded", fn |-> "encodeURL", data |-> d,
                  str |-> str, threw |-> ~testURL(str),
                  back |-> IF testURL(str) THEN decodeURL(str) ELSE <<>>]
  /\ UNCHANGED <<dsaVars, gen, rsa, obj, nat>>

\* encode(data) and decode of its result
Encode ==
  /\ enc.pc = "idle"
  /\ \E d \in EncData :
       LET str == encode(d)
       IN enc' = [pc |-> "encoded", fn |-> "encode", data |-> d,
                  str |-> str, threw |-> ~test(str),
                  back |-> IF test(str) THEN decode(str) ELSE <<>>]
  /\ UNCHANGED <<dsaVars, gen, rsa, obj, nat>>

\* decodeURL(str): throws when testURL(str) is false
DecodeURL ==
  /\ enc.pc = "idle"
  /\ \E str \in Texts :
       enc' = [pc |-> "decoded", fn |-> "decodeURL", str |-> str,
               threw |-> ~testURL(str),
               data |-> IF testURL(str) THEN decodeURL(str) ELSE <<>>,
               back |-> <<>>]
  /\ UNCHANGED <<dsaVars, gen, rsa, obj, nat>>

\* decode(str): throws when test(str) is false
Decode ==
  /\ enc.pc = "idle"
  /\ \E str \in Texts :
       enc' = [pc |-> "decoded", fn |-> "decode", str |-> str,
               threw |-> ~test(str),
               data |-> IF test(str) THEN decode(str) ELSE <<>>,
               back |-> <<>>]
  /\ UNCHANGED <<dsaVars, gen, rsa, obj, nat>>

EncNext == EncodeURL \/ Encode \/ DecodeURL \/ Decode

(***************************************************************************)
(* src/dsa/dsa.c: the key functions of the native backend.  An allocation  *)
(* (BN_new, BN_bin2bn, BN_CTX_new, DSA_new, malloc) can fail, and so can   *)
(* DSA_set0_pqg and DSA_set0_key, which take the numbers handed to them    *)
(* when they succeed and none of them when they fail.                      *)
(***************************************************************************)
bcrypto_dsa_sane_compute(k) ==
  LET pb == bcrypto_count_bits(k.p)
      qb == bcrypto_count_bits(k.q)
      gb == bcrypto_count_bits(k.g)
      yb == bcrypto_count_bits(k.y)
      xb == bcrypto_count_bits(k.x)
  IN IF pb < Scaled(1024) \/ pb > Scaled(3072) THEN FALSE
     ELSE IF qb # Scaled(160) /\ qb # Scaled(224) /\ qb # Scaled(256) THEN FALSE
     ELSE IF gb = 0 \/ gb > pb THEN FALSE
     ELSE IF yb > pb THEN FALSE
     ELSE IF xb = 0 \/ xb > qb THEN FALSE
     ELSE TRUE

bcrypto_dsa_needs_compute(k) == bcrypto_count_bits(k.y) = 0

bcrypto_dsa_pubkey_verify(k) ==
  IF ~bcrypto_dsa_params_verify(k) THEN FALSE
  ELSE bcrypto_dsa_sane_pubkey(k)

\* what a call of bcrypto_dsa_privkey_compute leaves: its return value and
\* what it wrote through out and out_len (written: no, or the value)
Computed(ret, outW, outNull, out, lenW, len) ==
  [ret |-> ret, outW |-> outW, outNull |-> outNull, out |-> out,
   lenW |-> lenW, len |-> len]

\* bcrypto_dsa_privkey_compute(priv, out, out_len); oom: an allocation or
\* BN_mod_exp fails.  With y present it writes *out = NULL and then sets
\* its own pointer out_len to 0: nothing is written through out_len
bcrypto_dsa_privkey_compute(priv, oom) ==
  IF ~bcrypto_dsa_sane_compute(priv)
  THEN Computed(FALSE, FALSE, FALSE, <<>>, FALSE, 0)
  ELSE IF ~bcrypto_dsa_needs_compute(priv)
  THEN Computed(TRUE, TRUE, TRUE, <<>>, FALSE, 0)
  ELSE IF oom
  THEN Computed(FALSE, FALSE, FALSE, <<>>, FALSE, 0)
  ELSE LET y_bn  == modPow(BN(priv.g), BN(priv.x), BN(priv.p))
           y_len == byteLength(y_bn)
       IN Computed(TRUE, TRUE, FALSE, toArrayLike(y_bn, y_len), TRUE, y_len)

\* bcrypto_dsa_privkey_verify without the comparison of x and y
bcrypto_dsa_privkey_verify_noUcmp(k, oom) ==
  IF ~bcrypto_dsa_sane_privkey(k) THEN FALSE
  ELSE IF ~bcrypto_dsa_pubkey_verify(k) THEN FALSE
  ELSE IF oom THEN FALSE
  ELSE modPow(BN(k.g), BN(k.x), BN(k.p)) = BN(k.y)

\* bcrypto_dsa_privkey_verify(key); oom: bcrypto_dsa_key2priv, BN_CTX_new,
\* BN_new or BN_mod_exp fails
bcrypto_dsa_privkey_verify(k, oom) ==
  IF ~bcrypto_dsa_sane_privkey(k) THEN FALSE
  ELSE IF ~bcrypto_dsa_pubkey_verify(k) THEN FALSE
  ELSE IF oom THEN FALSE
  ELSE IF BN(k.x) >= BN(k.y) THEN FALSE
  ELSE modPow(BN(k.g), BN(k.x), BN(k.p)) = BN(k.y)

(***************************************************************************)
(* bcrypto_dsa_key2dsa, statement by statement.                            *)
(***************************************************************************)
\* the DSA object and the BIGNUMs of bcrypto_dsa_key2dsa
Objects == {"key_d", "p", "q", "g", "y", "x"}

\* the BIGNUMs a mode reads: 0 params, 1 public key, 2 private key
Needed(mode) ==
  {"p", "q", "g"} \cup (IF mode > 0 THEN {"y"} ELSE {})
                  \cup (IF mode = 2 THEN {"x"} ELSE {})

\* the local pointers, all NULL
NoPtr == [o \in Objects |-> FALSE]

\* no object allocated: none, live (allocated, owned by the function), owned
\* (owned by the DSA object), freed
NoObjects == [o \in Objects |-> "none"]

NoFrees == [o \in Objects |-> 0]

\* lines 187-189 left out: p, q, g keep pointing at the numbers
clearPqg_kept(ptr) == ptr

\* p = NULL; q = NULL; g = NULL (lines 187-189)
clearPqg(ptr) == [ptr EXCEPT !["p"] = FALSE, !["q"] = FALSE, !["g"] = FALSE]

\* BN_free / DSA_free of the objects in os
freed(st, os) == [o \in Objects |-> IF o \in os THEN "freed" ELSE st[o]]

freeCount(frees, os) ==
  [o \in Objects |-> IF o \in os THEN frees[o] + 1 ELSE frees[o]]

\* the keys handed to the key functions: x of up to eight bits, y absent,
\* right or off by one, on two sets of sane parameters and one too short
NatXs == 0..255

NatParams == {<<34847, 131, 2883>>, <<65543, 32771, 4>>, <<347, 173, 4>>}

NatKeys ==
  {[p |-> toBuffer(d[1]), q |-> toBuffer(d[2]), g |-> toBuffer(d[3]),
    y |-> toBuffer(IF yk = 0 THEN 0 ELSE modPow(d[3], xn, d[1]) + yk - 1),
    x |-> toBuffer(xn)] : d \in NatParams, xn \in NatXs, yk \in {0, 1, 2}}

NatIdle ==
  [pc |-> "idle", fn |-> "", key |-> [p |-> <<>>, q |-> <<>>, g |-> <<>>, y |-> <<>>, x |-> <<>>],
   oom |-> FALSE, ret |-> FALSE,
   res |-> Computed(FALSE, FALSE, FALSE, <<>>, FALSE, 0),
   mode |-> 0, ptr |-> NoPtr, st |-> NoObjects, frees |-> NoFrees,
   dsa |-> "none"]

\* a call of bcrypto_dsa_privkey_verify
PrivkeyVerify ==
  /\ nat.pc = "idle"
  /\ \E k \in NatKeys, oom \in BOOLEAN :
       nat' = [nat EXCEPT !.pc = "returned", !.fn = "privkey_verify",
                          !.key = k, !.oom = oom,
                          !.ret = bcrypto_dsa_privkey_verify(k, oom)]
  /\ UNCHANGED <<dsaVars, gen, rsa, obj, enc>>

\* a call of bcrypto_dsa_privkey_compute
PrivkeyCompute ==
  /\ nat.pc = "idle"
  /\ \E k \in NatKeys, oom \in BOOLEAN :
       LET c == bcrypto_dsa_privkey_compute(k, oom)
       IN nat' = [nat EXCEPT !.pc = "returned", !.fn = "privkey_compute",
                             !.key = k, !.oom = oom, !.ret = c.ret, !.res = c]
  /\ UNCHANGED <<dsaVars, gen, rsa, obj, enc>>

\* bcrypto_dsa_key2dsa(key, mode), lines 153-157: no key or no such mode
Key2DsaCall ==
  /\ nat.pc = "idle"
  /\ \E mode \in -1..3, keyNull \in BOOLEAN :
       nat' = [nat EXCEPT !.fn = "key2dsa", !.mode = mode,
                 !.pc = IF keyNull \/ mode < 0 \/ mode > 2
                        THEN "returned" ELSE "new",
                 !.dsa = IF keyNull \/ mode < 0 \/ mode > 2
                         THEN "NULL" ELSE "none"]
  /\ UNCHANGED <<dsaVars, gen, rsa, obj, enc>>

\* key_d = DSA_new(), lines 166-169
Key2DsaNew ==
  /\ nat.pc = "new"
  /\ \E ok \in BOOLEAN :
       nat' = IF ok
              THEN [nat EXCEPT !.pc = "bin2bn", !.ptr["key_d"] = TRUE,
                               !.st["key_d"] = "live"]
              ELSE [nat EXCEPT !.pc = "fail"]
  /\ UNCHANGED <<dsaVars, gen, rsa, obj, enc>>

\* the BN_bin2bn calls and the test of their results, lines 171-182
Key2DsaBin2bn ==
  /\ nat.pc = "bin2bn"
  /\ \E got \in SUBSET Needed(nat.mode) :
       nat' = [nat EXCEPT
                 !.ptr = [o \in Objects |-> IF o \in got THEN TRUE ELSE @[o]],
                 !.st = [o \in Objects |-> IF o \in got THEN "live" ELSE @[o]],
                 !.pc = IF got = Needed(nat.mode) THEN "set0pqg" ELSE "fail"]
  /\ UNCHANGED <<dsaVars, gen, rsa, obj, enc>>

\* DSA_set0_pqg(key_d, p, q, g) and p = q = g = NULL, lines 184-189
Key2DsaSet0Pqg ==
  /\ nat.pc = "set0pqg"
  /\ \E ok \in BOOLEAN :
       nat' = IF ok
              THEN [nat EXCEPT
                      !.st = [o \in Objects |->
                                IF o \in {"p", "q", "g"} THEN "owned" ELSE @[o]],
                      !.ptr = clearPqg(@),
                      !.pc = IF nat.mode > 0 THEN "set0key" ELSE "return"]
              ELSE [nat EXCEPT !.pc = "fail"]
  /\ UNCHANGED <<dsaVars, gen, rsa, obj, enc>>

\* DSA_set0_key(key_d, y, x), lines 191-194
Key2DsaSet0Key ==
  /\ nat.pc = "set0key"
  /\ \E ok \in BOOLEAN :
       nat' = IF ok
              THEN [nat EXCEPT
                      !.st = [o \in Objects |->
                                IF o \in {"y", "x"} /\ nat.ptr[o]
                                THEN "owned" ELSE @[o]],
                      !.pc = "return"]
              ELSE [nat EXCEPT !.pc = "fail"]
  /\ UNCHANGED <<dsaVars, gen, rsa, obj, enc>>

\* y = NULL; x = NULL; return key_d, lines 196-199
Key2DsaReturn ==
  /\ nat.pc = "return"
  /\ nat' = [nat EXCEPT !.ptr["y"] = FALSE, !.ptr["x"] = FALSE,
                        !.dsa = "key_d", !.pc = "returned"]
  /\ UNCHANGED <<dsaVars, gen, rsa, obj, enc>>

\* fail, lines 201-220: DSA_free(key_d) frees the DSA object and the numbers
\* it owns, then BN_free frees every number a local pointer still points at
Key2DsaFail ==
  /\ nat.pc = "fail"
  /\ LET byDsa == IF nat.ptr["key_d"]
                  THEN {"key_d"} \cup {o \in Objects : nat.st[o] = "owned"}
                  ELSE {}
         byBn  == {o \in Objects \ {"key_d"} : nat.ptr[o]}
     IN nat' = [nat EXCEPT
                  !.st = freed(freed(@, byDsa), byBn),
                  !.frees = freeCount(freeCount(@, byDsa), byBn),
                  !.dsa = "NULL", !.pc = "returned"]
  /\ UNCHANGED <<dsaVars, gen, rsa, obj, enc>>

NatNext ==
  \/ PrivkeyVerify
  \/ PrivkeyCompute
  \/ Key2DsaCall
  \/ Key2DsaNew
  \/ Key2DsaBin2bn
  \/ Key2DsaSet0Pqg
  \/ Key2DsaSet0Key
  \/ Key2DsaReturn
  \/ Key2DsaFail

(***************************************************************************)
(* The specifications: one per part of the library, each leaving the       *)
(* other parts idle.                                                       *)
(***************************************************************************)
vars == <<dsaVars, gen, rsa, obj, enc, nat>>

\* DSA sign, verify and params verify
Init ==
  /\ DsaInit
  /\ gen = GenIdle
  /\ rsa = RsaIdle
  /\ obj = ObjIdle
  /\ enc = EncIdle
  /\ nat = NatIdle

Next == DsaNext

Spec == Init /\ [][Next]_vars

\* DSA parameter and key generation
SpecGen == Init /\ [][GenNext]_vars

\* the RSA verify family
SpecRsa == Init /\ [][RsaNext]_vars

\* the DSA key objects
SpecKey == Init /\ [][ObjNext]_vars

\* the base64 codec
SpecEnc == Init /\ [][EncNext]_vars

\* the key functions of the native backend
SpecNat == Init /\ [][NatNext]_vars

(***************************************************************************)
(* Properties of sign, verify and params verify.                           *)
(***************************************************************************)
\* the invariants of a valid private key (data model of DSAPrivateKey)
IsOrderQ(gn, qn, pn) == gn > 1 /\ gn < pn /\ modPow(gn, qn, pn) = 1

\* C1: a signature that the JS sign returned for a valid key verifies under
\* the public half of that key, whatever nonce the random source produced.
C1_RoundTrip ==
  (pc = "verified" /\ own /\ backend = "js") => res = TRUE

\* C1 witness: a signature of the JS backend was verified, for a message
\* whose integer (255) is above q (173).
C1_Witness ==
  /\ pc = "verified" /\ own /\ backend = "js" /\ res = TRUE
  /\ BN(key.q) = 173 /\ BN(msg) = 255

\* C2: verify returns false whenever r or s is not in the open interval
\* (0, q), for every message and public key and for both backends.
C2_RangeRejected ==
  (pc = "verified" /\
     (BN(sig.r) = 0 \/ BN(sig.r) >= BN(key.q) \/
      BN(sig.s) = 0 \/ BN(sig.s) >= BN(key.q)))
  => res = FALSE

\* C2 witness: verify was handed r = q > 0 with s inside (0, q) and said false.
C2_Witness ==
  /\ pc = "verified" /\ ~own /\ backend = "js"
  /\ BN(key.q) > 0 /\ BN(sig.r) = BN(key.q)
  /\ BN(sig.s) > 0 /\ BN(sig.s) < BN(key.q)
  /\ res = FALSE

\* C5: the JS sign makes at most 10 passes; it throws 'Could not sign.' only
\* after 10 passes that each gave r = 0 or s = 0, and after 10 such passes it
\* does throw; a signature it returns has r # 0 and s # 0 and comes from the
\* first pass that gave both nonzero.
C5_RetryBudget ==
  backend = "js" =>
    /\ passes <= SIGN_ATTEMPTS
    /\ (pc = "threw" /\ res = "Could not sign.")
         => (passes = SIGN_ATTEMPTS /\ good = 0)
    /\ (pc \in {"signed", "loop"} /\ backend = "js" /\ passes = SIGN_ATTEMPTS)
         => (pc = "loop" <=> good = 0)
    /\ pc = "loop" => (good = 0 /\ attempts + passes = SIGN_ATTEMPTS)
    /\ pc = "signed"
         => /\ good = 1
            /\ r # 0 /\ s # 0
            /\ BN(sig.r) = r /\ BN(sig.s) = s

\* C5 witness: sign returned the signature of its 10th pass.
C5_Witness ==
  pc = "signed" /\ backend = "js" /\ passes = SIGN_ATTEMPTS /\ good = 1

\* C5 witness of the other end: all 10 passes failed and sign threw.
C5_Exhausted ==
  pc = "threw" /\ res = "Could not sign." /\ passes = SIGN_ATTEMPTS

\* C10: r and s of every signature sign returns are exactly ceil(bits(q)/8)
\* bytes long and hold a value in (0, q), big-endian.
C10_SigWidth ==
  pc = "signed" =>
    LET sz == (bitLength(BN(key.q)) + 7) \div 8
    IN /\ Len(sig.r) = sz
       /\ Len(sig.s) = sz
       /\ BN(sig.r) > 0 /\ BN(sig.r) < BN(key.q)
       /\ BN(sig.s) > 0 /\ BN(sig.s) < BN(key.q)
       /\ backend = "js" => (BN(sig.r) = r /\ BN(sig.s) = s)

\* C10 witness: the native sign returned an r that needs one byte in the two
\* bytes of q.
C10_Witness ==
  /\ pc = "signed" /\ backend = "native"
  /\ Len(sig.r) = 2 /\ sig.r[1] = 0

\* C10 witness for the JS backend.
C10_WitnessJS ==
  /\ pc = "signed" /\ backend = "js"
  /\ Len(sig.r) = 2 /\ sig.r[1] = 0

\* C6: params verify returns true only for parameters with q | p-1,
\* 1 < g < p and g^q mod p = 1.
C6_ParamsVerifySound ==
  (pc = "pverified" /\ res = TRUE) =>
    LET pn == BN(key.p)
        qn == BN(key.q)
        gn == BN(key.g)
    IN (pn - 1) % qn = 0 /\ IsOrderQ(gn, qn, pn)

\* what params verify does establish: q | p-1 and g^((p-1)/q) mod p # 1
C6_ParamsVerifyActual ==
  (pc = "pverified" /\ res = TRUE) =>
    LET pn == BN(key.p)
        qn == BN(key.q)
        gn == BN(key.g)
    IN (pn - 1) % qn = 0 /\ modPow(gn, (pn - 1) \div qn, pn) # 1

(***************************************************************************)
(* Properties of parameter and key generation.                             *)
(***************************************************************************)
\* n has no divisor between 1 and n
IsPrime(n) == n > 1 /\ \A d \in 2..(n - 1) : n % d # 0

\* C3: the parameters generate returns satisfy q | p-1, g^q mod p = 1,
\* g # 1, bitLength(p) = L and bitLength(q) = N, whatever the random source
\* and the primality test answer.
C3_GeneratedParams ==
  gen.pc = "done" =>
    LET pn == BN(gen.params.p)
        qn == BN(gen.params.q)
        gn == BN(gen.params.g)
    IN /\ (pn - 1) % qn = 0
       /\ modPow(gn, qn, pn) = 1
       /\ gn # 1
       /\ bitLength(pn) = Scaled(gen.L)
       /\ bitLength(qn) = Scaled(gen.N)

\* C3 as amended: the parameters generate returns satisfy q | p-1, g # 1,
\* bitLength(p) = L and bitLength(q) = N whatever the random source and the
\* primality test answer, and g^q mod p = 1 whenever the p it returns is
\* prime.
C3_GeneratedParamsPrime ==
  gen.pc = "done" =>
    LET pn == BN(gen.params.p)
        qn == BN(gen.params.q)
        gn == BN(gen.params.g)
    IN /\ (pn - 1) % qn = 0
       /\ gn # 1
       /\ bitLength(pn) = Scaled(gen.L)
       /\ bitLength(qn) = Scaled(gen.N)
       /\ IsPrime(pn) => modPow(gn, qn, pn) = 1

\* C3 witness: generate returned a prime p, with its g, after at least one
\* candidate for p had been turned down.
C3_Witness ==
  /\ gen.pc = "done"
  /\ gen.i > 0
  /\ IsPrime(BN(gen.params.p))
  /\ BN(gen.params.g) > 1

\* C4: paramsGenerate(bits) fails with a RangeError exactly when bits is
\* outside [1024, 3072], and for every bits inside does not fail and
\* generates with L = bits and N = 160 below 2048, else N = 256.
C4_RangeOnly ==
  (gen.fn = "paramsGenerate" /\ gen.pc \in {"threw", "q", "p", "done"}) =>
    LET b == IF gen.bits = <<>> THEN 2048 ELSE gen.bits[1]
    IN IF b < 1024 \/ b > 3072
       THEN gen.pc = "threw" /\ gen.err = "RangeError"
       ELSE /\ gen.pc # "threw"
            /\ gen.L = b
            /\ gen.N = IF b < 2048 THEN 160 ELSE 256

\* what paramsGenerate does: an assertion error below 0, a RangeError
\* elsewhere outside [1024, 3072], and inside it 'Invalid parameter sizes.'
\* for every bits other than 1024, 2048, 3072
C4_Actual ==
  (gen.fn = "paramsGenerate" /\ gen.pc \in {"threw", "q", "p", "done"}) =>
    LET b == IF gen.bits = <<>> THEN 2048 ELSE gen.bits[1]
    IN IF b < 0
       THEN gen.pc = "threw" /\ gen.err = "AssertionError"
       ELSE IF b < 1024 \/ b > 3072
       THEN gen.pc = "threw" /\ gen.err = "RangeError"
       ELSE IF b \in {1024, 2048, 3072}
       THEN /\ gen.pc # "threw"
            /\ gen.L = b
            /\ gen.N = IF b < 2048 THEN 160 ELSE 256
       ELSE gen.pc = "threw" /\ gen.err = "Invalid parameter sizes."

\* C9: privateKeyCreate returns a key with the p, q, g of params, 0 < x < q
\* and y = g^x mod p, and every x in [1, q-1] is a possible outcome.
C9_KeyCreate ==
  gen.pc = "created" =>
    LET pn == BN(gen.params.p)
        qn == BN(gen.params.q)
        gn == BN(gen.params.g)
        xn == BN(gen.key.x)
    IN /\ gen.key.p = gen.params.p
       /\ gen.key.q = gen.params.q
       /\ gen.key.g = gen.params.g
       /\ xn > 0 /\ xn < qn
       /\ BN(gen.key.y) = modPow(gn, xn, pn)
       /\ privateKeyCreate_xs(gen.params) = 1..(qn - 1)

\* what privateKeyCreate does: x is drawn from bitLength(q) >>> 3 bytes, so
\* it is below 2^(8 * (bitLength(q) >>> 3)) as well as below q
C9_Actual ==
  gen.pc = "created" =>
    LET pn == BN(gen.params.p)
        qn == BN(gen.params.q)
        gn == BN(gen.params.g)
        xn == BN(gen.key.x)
    IN /\ gen.key.p = gen.params.p
       /\ gen.key.q = gen.params.q
       /\ gen.key.g = gen.params.g
       /\ xn > 0 /\ xn < qn
       /\ BN(gen.key.y) = modPow(gn, xn, pn)
       /\ privateKeyCreate_xs(gen.params) = 1..(Min(qn, 2^(8 * (bitLength(qn) \div 8))) - 1)

(***************************************************************************)
(* Properties of the RSA verify family.                                    *)
(***************************************************************************)
\* DER decoding of the key of the call fails
RsaDecodeFails ==
  IF rsa.fn = "privateKeyVerify"
  THEN ~RSAPrivateKey_decode(rsa.key).ok
  ELSE ~RSAPublicKey_decode(rsa.key).ok

\* the arguments of the call have the declared types
RsaTyped ==
  /\ rsa.key.type = "Buffer"
  /\ rsa.fn = "verify" =>
       /\ hashSelected(rsa.hash)
       /\ rsa.msg.type = "Buffer"
       /\ rsa.sig.type = "Buffer"

\* C7: verify, publicKeyVerify and privateKeyVerify never raise: on every
\* input they return a boolean, and false when DER decoding of the key
\* fails.
C7_NeverRaise ==
  rsa.pc = "called" =>
    /\ ~rsa.raised
    /\ RsaDecodeFails => ~rsa.value

\* C7 as amended: on arguments of the declared types (hash with a string
\* id; msg, sig and key Buffers) the three entry points return a boolean and
\* never raise, and return false when DER decoding of the key fails; they
\* raise only on an argument of another type: publicKeyVerify and
\* privateKeyVerify when key is not a Buffer, verify when the key decodes and
\* hash, msg or sig is of another type.
C7_TypedNeverRaise ==
  rsa.pc = "called" =>
    /\ RsaTyped => ~rsa.raised
    /\ (RsaTyped /\ RsaDecodeFails) => ~rsa.value
    /\ rsa.raised <=>
         IF rsa.fn = "verify"
         THEN /\ ~RsaDecodeFails
              /\ \/ ~hashSelected(rsa.hash)
                 \/ rsa.msg.type # "Buffer"
                 \/ rsa.sig.type # "Buffer"
         ELSE rsa.key.type # "Buffer"

\* C7 witness: publicKeyVerify returned false for a Buffer that is not the
\* DER of a public key.
C7_Witness ==
  /\ rsa.pc = "called"
  /\ rsa.fn = "publicKeyVerify"
  /\ rsa.key.type = "Buffer"
  /\ rsa.key.bytes # <<>>
  /\ RsaDecodeFails
  /\ ~rsa.raised
  /\ ~rsa.value

\* verify accepted a signature
C7_WitnessVerified ==
  rsa.pc = "called" /\ rsa.fn = "verify" /\ ~rsa.raised /\ rsa.value

\* privateKeyVerify accepted a key
C7_WitnessPrivate ==
  rsa.pc = "called" /\ rsa.fn = "privateKeyVerify" /\ ~rsa.raised /\ rsa.value

(***************************************************************************)
(* Properties of the key objects.                                          *)
(***************************************************************************)
\* a buffer without a leading zero byte (zero is the empty buffer)
Canonical(buf) == Len(buf) = 0 \/ buf[1] # 0

\* C8: after any sequence of key-object operations every field buffer
\* (p, q, g, y, x) of the object is canonical.
C8_FieldsCanonical ==
  obj.pc = "live" =>
    /\ Canonical(obj.p)
    /\ Canonical(obj.q)
    /\ Canonical(obj.g)
    /\ Canonical(obj.y)
    /\ Canonical(obj.x)

(***************************************************************************)
(* Properties of the size checks, the key objects' sizes, the agreement of *)
(* the backends and the native key routines.                               *)
(***************************************************************************)
\* the four pairs (L, N) of the data model, at the scale of the model
AllowedPair(L, N) ==
  \/ L = Scaled(1024) /\ N = Scaled(160)
  \/ L = Scaled(2048) /\ N = Scaled(224)
  \/ L = Scaled(2048) /\ N = Scaled(256)
  \/ L = Scaled(3072) /\ N = Scaled(256)

\* C11: only the four allowed pairs (L, N) are accepted: generate(L, N)
\* fails for every other pair, and bcrypto_dsa_sane_params returns false for
\* every key whose (bitLength(p), bitLength(q)) is not one of them.
C11_OnlyAllowedPairs ==
  /\ \A L \in GenerateLs, N \in GenerateNs :
       generateAllowed(L, N) =>
         <<L, N>> \in {<<1024, 160>>, <<2048, 224>>, <<2048, 256>>, <<3072, 256>>}
  /\ pc = "pverified" =>
       (bcrypto_dsa_sane_params(key) =>
          AllowedPair(bitLength(BN(key.p)), bitLength(BN(key.q))))

\* what the code does: generate(L, N) throws for every pair other than the
\* four allowed ones
C11_GenerateRejects ==
  (gen.fn = "generate" /\ gen.pc # "idle") =>
    (gen.pc = "threw" <=>
       <<gen.L, gen.N>> \notin
         {<<1024, 160>>, <<2048, 224>>, <<2048, 256>>, <<3072, 256>>})

\* what the code does: bcrypto_dsa_sane_params takes p of 1024 to 3072 bits
\* with q of 160, 224 or 256 bits, in any combination, and g of 1 bit to
\* the bits of p
C11_SaneParamsActual ==
  pc = "pverified" =>
    (bcrypto_dsa_sane_params(key) <=>
       /\ bitLength(BN(key.p)) \in Scaled(1024)..Scaled(3072)
       /\ bitLength(BN(key.q)) \in {Scaled(160), Scaled(224), Scaled(256)}
       /\ bitLength(BN(key.g)) \in 1..bitLength(BN(key.p)))


\* C12: for every key object, bits() is the bit length of the modulus p and
\* size() is the byte size of that same modulus: size() = ceil(bits() / 8).
C12_SizeOfModulus ==
  obj.pc = "live" =>
    /\ DSAParams_bits(obj) = bitLength(BN(obj.p))
    /\ DSAParams_size(obj) = (DSAParams_bits(obj) + 7) \div 8

\* what the code has: size() is the byte size of the subprime q
C12_SizeOfSubprime ==
  obj.pc = "live" =>
    /\ DSAParams_bits(obj) = bitLength(BN(obj.p))
    /\ DSAParams_size(obj) = byteLength(BN(obj.q))

\* C13: the pure-JS and the native backend agree: for every message,
\* signature and public key, verify of lib/js/dsa.js and bcrypto_dsa_verify
\* of src/dsa/dsa.c return the same boolean.
C13_BackendsAgree ==
  pc = "verified" =>
    /\ res = (IF backend = "js" THEN verify(msg, sig, key)
              ELSE bcrypto_dsa_verify(msg, sig, key))
    /\ verify(msg, sig, key) = bcrypto_dsa_verify(msg, sig, key)

\* what holds of the code: whatever the native backend accepts on a digest
\* no longer than q, with minimal r and s, the JS backend accepts too
C13_NativeImpliesJS ==
  (/\ pc = "verified"
   /\ Len(msg) <= byteLength(BN(key.q))
   /\ bcrypto_dsa_verify(msg, sig, key)) => verify(msg, sig, key)

\* the characters of the URL-safe alphabet: A-Z a-z 0-9 - _
IsURLText(str) == \A i \in 1..Len(str) : str[i] \in 0..63

\* a text with '=' padding or one of the characters '+' and '/'
HasStandardChar(str) == \E i \in 1..Len(str) : str[i] \in {64, 65, 66}

C14_WitnessRefused ==
  /\ enc.pc = "decoded"
  /\ enc.fn = "decodeURL"
  /\ enc.str \in urlInvalid
  /\ enc.threw

\* C15: key objects own their byte buffers: after toPublic(), setParams /
\* fromParams(params) or toParams() the object shares no field buffer with
\* the object it was derived from.
C15_OwnBuffers == obj.pc = "live" => obj.shared = {}

\* what the code does: only p, q, g and y are ever shared, x never is, and a
\* DSAParams object shares nothing but p, q, g
C15_SharedFields ==
  obj.pc = "live" =>
    /\ obj.shared \subseteq {"p", "q", "g", "y"}
    /\ obj.shared \subseteq Fields(obj.cls)

\* C16: bcrypto_dsa_privkey_verify returns true exactly for the private keys
\* whose public part passes bcrypto_dsa_pubkey_verify, with 0 < x < q and
\* y = g^x mod p (no allocation failing).
C16_PrivkeyVerifyExact ==
  (nat.pc = "returned" /\ nat.fn = "privkey_verify" /\ ~nat.oom) =>
    (nat.ret <=>
       /\ bcrypto_dsa_pubkey_verify(nat.key)
       /\ 0 < BN(nat.key.x)
       /\ BN(nat.key.x) < BN(nat.key.q)
       /\ BN(nat.key.y) = modPow(BN(nat.key.g), BN(nat.key.x), BN(nat.key.p)))

\* what the code decides: x of no more bits than q, x < y, y = g^x mod p
C16_PrivkeyVerifyActual ==
  (nat.pc = "returned" /\ nat.fn = "privkey_verify" /\ ~nat.oom) =>
    (nat.ret <=>
       /\ bcrypto_dsa_pubkey_verify(nat.key)
       /\ 0 < BN(nat.key.x)
       /\ bitLength(BN(nat.key.x)) <= bitLength(BN(nat.key.q))
       /\ BN(nat.key.x) < BN(nat.key.y)
       /\ BN(nat.key.y) = modPow(BN(nat.key.g), BN(nat.key.x), BN(nat.key.p)))

\* C18: when bcrypto_dsa_privkey_compute returns true both outputs are
\* written: *out = NULL and *out_len = 0 for a key that has y, else the
\* big-endian bytes of g^x mod p and their length; when it returns false
\* neither is written.
C18_OutputsWritten ==
  (nat.pc = "returned" /\ nat.fn = "privkey_compute") =>
    /\ nat.ret =>
         /\ nat.res.outW
         /\ nat.res.lenW
         /\ IF BN(nat.key.y) # 0
            THEN nat.res.outNull /\ nat.res.len = 0
            ELSE /\ ~nat.res.outNull
                 /\ BN(nat.res.out) =
                      modPow(BN(nat.key.g), BN(nat.key.x), BN(nat.key.p))
                 /\ nat.res.len = Len(nat.res.out)
    /\ ~nat.ret => (~nat.res.outW /\ ~nat.res.lenW)

\* what the code does: *out_len is written exactly when y was computed
C18_LenWrittenWhenComputed ==
  (nat.pc = "returned" /\ nat.fn = "privkey_compute") =>
    /\ nat.res.outW <=> nat.ret
    /\ nat.res.lenW <=> (nat.ret /\ BN(nat.key.y) = 0)
    /\ ~nat.ret => (~nat.res.outW /\ ~nat.res.lenW)

\* C19: when bcrypto_dsa_key2dsa returns, whatever failed, every object it
\* allocated is owned by the DSA object it returns or was freed exactly
\* once: nothing leaks, nothing is freed twice, and what it returns is whole.
C19_Key2DsaOwnership ==
  (nat.pc = "returned" /\ nat.fn = "key2dsa") =>
    /\ \A o \in Objects : nat.frees[o] <= 1
    /\ nat.dsa = "key_d" =>
         /\ nat.st["key_d"] = "live"
         /\ \A o \in Needed(nat.mode) : nat.st[o] = "owned"
         /\ \A o \in Objects \ (Needed(nat.mode) \cup {"key_d"}) :
              nat.st[o] = "none"
         /\ \A o \in Objects : nat.frees[o] = 0
    /\ nat.dsa = "NULL" =>
         \A o \in Objects :
           \/ nat.st[o] = "none" /\ nat.frees[o] = 0
           \/ nat.st[o] = "freed" /\ nat.frees[o] = 1

\* DSA_set0_key fails on a private key after DSA_set0_pqg took p, q and g:
\* all five numbers and the DSA object are freed
C19_Witness ==
  /\ nat.pc = "returned"
  /\ nat.fn = "key2dsa"
  /\ nat.mode = 2
  /\ nat.dsa = "NULL"
  /\ \A o \in Objects : nat.st[o] = "freed"

\* a private key converted: the DSA object owns all five numbers
C19_WitnessReturned ==
  /\ nat.pc = "returned"
  /\ nat.fn = "key2dsa"
  /\ nat.mode = 2
  /\ nat.dsa = "key_d"
  /\ \A o \in Needed(2) : nat.st[o] = "owned"

\* the half of C16 that fails by rejection: a key that satisfies the data
\* model is accepted
C16_AcceptsValid ==
  (/\ nat.pc = "returned" /\ nat.fn = "privkey_verify" /\ ~nat.oom
   /\ bcrypto_dsa_pubkey_verify(nat.key)
   /\ 0 < BN(nat.key.x)
   /\ BN(nat.key.x) < BN(nat.key.q)
   /\ BN(nat.key.y) = modPow(BN(nat.key.g), BN(nat.key.x), BN(nat.key.p)))
  => nat.ret

\* the half of C16 that fails by acceptance: no key with x >= q is accepted
C16_RejectsLargeX ==
  (/\ nat.pc = "returned" /\ nat.fn = "privkey_verify"
   /\ BN(nat.key.x) >= BN(nat.key.q))
  => ~nat.ret

\* C17: in parameter generation at most 4L candidates for p are drawn for
\* one q; after 4L candidates without an accepted one a fresh q is sampled,
\* and p candidates are drawn again only for that fresh q; the search ends
\* with the first candidate that has bitLength(p) >= L and passes the
\* primality test, paired with the q it was drawn for.
C17_Step ==
  /\ gen'.pc = "p" => gen'.i <= 4 * Scaled(gen'.L)
  /\ (gen.pc = "p" /\ gen'.pc = "p") =>
       /\ gen.i < 4 * Scaled(gen.L)
       /\ gen'.i = gen.i + 1
       /\ gen'.qn = gen.qn
       /\ \/ bitLength(gen'.pn) < Scaled(gen.L)
          \/ FALSE \in probablyPrime(gen'.pn, PRIME_ROUNDS)
  /\ (gen.pc = "p" /\ gen'.pc = "q") =>
       /\ gen.i = 4 * Scaled(gen.L)
       /\ gen'.params = gen.params
  /\ (gen.pc = "q" /\ gen'.pc = "p") =>
       /\ gen'.i = 0
       /\ gen'.qn \in generateQ(gen.N)
       /\ TRUE \in probablyPrime(gen'.qn, PRIME_ROUNDS)
  /\ (gen.pc = "p" /\ gen'.pc = "done") =>
       /\ gen.i < 4 * Scaled(gen.L)
       /\ gen'.qn = gen.qn
       /\ bitLength(gen'.pn) >= Scaled(gen.L)
       /\ TRUE \in probablyPrime(gen'.pn, PRIME_ROUNDS)
       /\ gen'.pn % gen.qn = 1
       /\ gen'.params.p = toBuffer(gen'.pn)
       /\ gen'.params.q = toBuffer(gen.qn)
  /\ gen'.pc = "done" => gen.pc = "p"

C17_CandidateBudget == [][C17_Step]_vars

\* 4L candidates for one q were turned down and the search is back at
\* sampling q
C17_Witness ==
  /\ gen.pc = "q"
  /\ gen.fn = "paramsGenerate"
  /\ gen.i = 4 * Scaled(gen.L)

\* the search has ended with a candidate that was not the first one drawn
C17_WitnessFound ==
  /\ gen.pc = "done"
  /\ gen.i > 0
====
